---- MODULE Spec2Model ----
(***************************************************************************)
(* A model of the linenoise line editor (src/linenoise.c, src/linenoise.h) *)
(* and of the host loop of the example program (src/unnamed/part_000).     *)
(*                                                                         *)
(* The LinenoiseState struct is the record ls; the edit operations are     *)
(* operators from a struct value to the struct value the C function        *)
(* leaves behind.  Bytes are naturals (their ASCII codes), C strings are   *)
(* sequences of non-zero bytes, and the edit buffer is the whole malloc'ed *)
(* array, so that a NUL inside the line or a missing terminator shows.     *)
(***************************************************************************)
EXTENDS Integers, Sequences, FiniteSets, TLC

\* ------------------------------------------------------------------ bounds
\* LINENOISE_MAX_LINE is 4096 in the source (linenoise.c:121) and
\* LINENOISE_DEFAULT_HISTORY_MAX_LEN is 100 (linenoise.c:120); the model
\* keeps their roles and scales their values.
LINENOISE_MAX_LINE == 4
LINENOISE_DEFAULT_HISTORY_MAX_LEN == 2
\* Two kinds of run are explored.  An editing run follows one Linenoise()
\* call in depth: up to MaxKeys bytes read, after at most MaxPrep host calls.
\* A session run follows up to MaxCalls Linenoise() calls with up to
\* MaxSessionKeys bytes read in all and up to MaxHost host calls, at most
\* MaxSessionSteps of these steps in all.
MaxKeys == 4
MaxPrep == 1
MaxCalls == 2
MaxSessionKeys == 2
MaxHost == 2
MaxSessionSteps == 5
\* A word run follows one Linenoise() call on a wide terminal with up to
\* MaxWordKeys bytes of a small alphabet: a letter, the space and the keys
\* that move the cursor and delete words.
MaxWordKeys == 4
\* A browse run follows up to MaxCalls Linenoise() calls with up to
\* MaxBrowseKeys bytes read in all, the keys that browse the history among
\* them, after up to MaxHost host calls that may widen the history by one.
MaxBrowseKeys == 4
\* A refresh run follows one Linenoise() call with up to MaxRefreshKeys
\* bytes, on a terminal that is wide or two columns wider than the prompt,
\* after up to MaxHost host calls.
MaxRefreshKeys == 4
\* the width of size_t in the model
SizeBits == 16
\* keys read in a run over the table of edit operations
MaxOpKeys == 3

\* ------------------------------------------------------------ key codes
KEY_NULL == 0
CTRL_A == 1
CTRL_B == 2
CTRL_C == 3
CTRL_D == 4
CTRL_E == 5
CTRL_F == 6
CTRL_H == 8
TAB == 9
CTRL_K == 11
CTRL_L == 12
ENTER == 13
CTRL_N == 14
CTRL_P == 16
CTRL_T == 20
CTRL_U == 21
CTRL_W == 23
ESC == 27
BACKSPACE == 127
SPACE == 32
CH_LF == 10
\* letters of the escape sequences and the two letters the user types
CH_LBRACKET == 91
CH_O == 79
CH_A == 65
CH_B == 66
CH_C == 67
CH_D == 68
CH_F == 70
CH_H == 72
CH_3 == 51
CH_TILDE == 126
CH_a == CH_A + SPACE
CH_h == CH_H + SPACE
\* a byte with the top bit set (0xC3, the first byte of a UTF-8 letter)
HighByte == 128 + CH_C

LINENOISE_HISTORY_NEXT == 0
LINENOISE_HISTORY_PREV == 1

\* the prompt of the example program is "> "
PromptLen == 2

\* --------------------------------------------------------------- strings
Min(a, b) == IF a < b THEN a ELSE b
Max(a, b) == IF a > b THEN a ELSE b

\* strlen over an array that holds a NUL: the index of the first NUL
RECURSIVE StrLenFrom(_, _)
StrLenFrom(b, i) ==
    IF i > Len(b) \/ b[i] = 0 THEN i - 1 ELSE StrLenFrom(b, i + 1)
strlen(b) == StrLenFrom(b, 1)

\* strdup(buf): the bytes before the first NUL
strdup(b) == SubSeq(b, 1, strlen(b))

\* the array with byte c stored at 0-based index i
Store(b, i, c) == [b EXCEPT ![i + 1] = c]
\* the byte at 0-based index i
At(b, i) == b[i + 1]

\* strncpy(buf, s, n): the bytes of s, NUL padded up to n bytes, the rest of
\* buf untouched
strncpy(b, s, n) ==
    [i \in 1..Len(b) |->
        IF i <= n THEN (IF i <= Len(s) THEN s[i] ELSE 0) ELSE b[i]]

\* snprintf(buf, n, "%s", s) stores at most n-1 bytes of s and a NUL;
\* its return value is strlen(s)
snprintf(b, n, s) ==
    [i \in 1..Len(b) |->
        IF i <= Min(Len(s), n - 1) THEN s[i]
        ELSE IF i = Min(Len(s), n - 1) + 1 THEN 0 ELSE b[i]]

\* memset(buf, 0, n)
memset0(b, n) == [i \in 1..Len(b) |-> IF i <= n THEN 0 ELSE b[i]]

ZeroBuf == [i \in 1..LINENOISE_MAX_LINE |-> 0]

\* --------------------------------------------------------------- termios
\* A termios value: the flag groups EnableRawMode touches.
CookedTermios ==
    [iflag |-> TRUE, opost |-> TRUE, cs8 |-> FALSE, lflag |-> TRUE,
     vmin |-> 4, vtime |-> 1]
\* memset(ls, 0, sizeof(LinenoiseState)) leaves orig_termios all zero
ZeroTermios ==
    [iflag |-> FALSE, opost |-> FALSE, cs8 |-> FALSE, lflag |-> FALSE,
     vmin |-> 0, vtime |-> 0]
\* the raw attributes derived from a snapshot
MakeRaw(t) ==
    [t EXCEPT !.iflag = FALSE, !.opost = FALSE, !.cs8 = TRUE,
              !.lflag = FALSE, !.vmin = 1, !.vtime = 0]


\* ---------------------------------------------------------------- refresh
\* the hints callback of the example program: one line has a hint, every
\* other line has none (NULL, here the empty string)
HintFor == <<CH_a, CH_a>>
HintText == <<SPACE, CH_h, CH_a, CH_h, CH_a>>
hints(b) == IF strdup(b) = HintFor THEN HintText ELSE <<>>

\* a RefreshShowHints that does not cut the hint to the room left
RefreshShowHints_NoCut(l, hc) ==
    IF hc /\ l.plen + l.len < l.cols THEN hints(l.buf) ELSE <<>>

\* RefreshShowHints, called by both refresh functions with the len of the
\* struct: the hint bytes it appends, hc telling whether a hints callback
\* is registered
RefreshShowHints(l, hc) ==
    IF hc /\ l.plen + l.len < l.cols
    THEN SubSeq(hints(l.buf), 1,
                Min(Len(hints(l.buf)), l.cols - (l.plen + l.len)))
    ELSE <<>>

\* size_t has SizeBits bits (scaled down); its arithmetic is modulo SizeMod
SizeMod == 2 ^ SizeBits

\* RefreshSingleLine slides the window with "buf++, len--, pos--" while
\* plen + pos >= cols; this is the number of times that loop runs (when
\* plen >= cols the unsigned pos wraps past zero before the loop ends).
SlideCount(l) ==
    IF l.plen + l.pos < l.cols THEN 0
    ELSE IF l.cols > l.plen THEN l.pos - (l.cols - l.plen - 1)
    ELSE l.pos + (l.plen - l.cols + 1)

\* RefreshSingleLine changes no field of the struct.  When the loop runs
\* more often than len, the unsigned len wraps and the memcpy of abAppend
\* gets a size of nearly 2^64: undefined behaviour.
RefreshSingleLine(l) ==
    IF SlideCount(l) > l.len THEN [l EXCEPT !.ub = TRUE] ELSE l

\* a RefreshSingleLine without its second loop: the tail is not cut
SingleLineWindow_NoCut(l) ==
    [off |-> SlideCount(l), len |-> (l.len - SlideCount(l)) % SizeMod,
     pos |-> (l.pos - SlideCount(l)) % SizeMod]

\* a RefreshSingleLine whose loops stop decrementing at zero
SingleLineWindow_StopsAtZero(l) ==
    LET len1 == Max(0, l.len - SlideCount(l))
    IN [off |-> SlideCount(l),
        len |-> IF l.plen + len1 > l.cols
                THEN Max(0, l.cols - l.plen) ELSE len1,
        pos |-> Max(0, l.pos - SlideCount(l))]

\* the locals of RefreshSingleLine after its two loops: buf - l->buf (off),
\* len and pos, which are size_t: "len--" and "pos--" at zero wrap around.
\* The second loop decrements len while (plen + len) mod 2^w > cols.
SingleLineWindow(l) ==
    LET len1 == (l.len - SlideCount(l)) % SizeMod
        sum == (l.plen + len1) % SizeMod
    IN [off |-> SlideCount(l),
        len |-> IF sum > l.cols THEN (len1 - (sum - l.cols)) % SizeMod
                ELSE len1,
        pos |-> (l.pos - SlideCount(l)) % SizeMod]

\* abAppend(&ab, buf, len): the buffer bytes RefreshSingleLine writes
SingleLineBytes(l) ==
    SubSeq(l.buf, SingleLineWindow(l).off + 1,
           SingleLineWindow(l).off + SingleLineWindow(l).len)

\* the column of "\r\x1b[%dC": pos + plen
SingleLineCursor(l) == (SingleLineWindow(l).pos + l.plen) % SizeMod

\* the locals of RefreshMultiLine: rows, the rows the line uses
MultiLineRows(l) == (l.plen + l.len + l.cols - 1) \div l.cols

\* an rpos that counts the rows from zero
MultiLineRpos_ZeroBased(l) == (l.plen + l.oldpos) \div l.cols

\* rpos, the row of the cursor of the previous refresh
MultiLineRpos(l) == (l.plen + l.oldpos + l.cols) \div l.cols

\* the argument of the "go down" sequence that opens the erase phase,
\* 0 when the sequence is not written; old_rows is maxrows at entry
MultiLineDown(l) ==
    IF l.maxrows - MultiLineRpos(l) > 0
    THEN l.maxrows - MultiLineRpos(l) ELSE 0

\* RefreshMultiLine keeps the render memo: maxrows and oldpos.
RefreshMultiLine(l) ==
    LET rows == MultiLineRows(l)
        m1 == Max(l.maxrows, rows)
        nl == l.pos # 0 /\ l.pos = l.len /\ (l.pos + l.plen) % l.cols = 0
        m2 == IF nl THEN Max(m1, rows + 1) ELSE m1
    IN [l EXCEPT !.maxrows = m2, !.oldpos = l.pos]

\* a refresh reads buf[0 .. len-1]: past the allocation when a completion
\* left len beyond the array; nrefresh counts the calls of RefreshLine
\* the current operation has made
RefreshLine(l) ==
    LET r == IF l.mlmode THEN RefreshMultiLine(l) ELSE RefreshSingleLine(l)
        r1 == [r EXCEPT !.nrefresh = r.nrefresh + 1]
    IN IF l.len > Len(l.buf) THEN [r1 EXCEPT !.ub = TRUE] ELSE r1

\* --------------------------------------------------------- edit operations
\* TRUE when LinenoiseEditInsert takes the one-byte write instead of a refresh
InsertFastPath(l, hc) ==
    /\ l.len < l.buflen
    /\ l.len = l.pos
    /\ ~l.mlmode
    /\ l.plen + l.len + 1 < l.cols
    /\ ~hc

LinenoiseEditInsert(l, c, hc) ==
    IF l.len < l.buflen
    THEN IF l.len = l.pos
         THEN LET l1 == [l EXCEPT
                           !.buf = Store(Store(l.buf, l.pos, c), l.len + 1, 0),
                           !.pos = l.pos + 1,
                           !.len = l.len + 1]
              IN IF InsertFastPath(l, hc) THEN l1 ELSE RefreshLine(l1)
         ELSE LET moved ==
                    [i \in 1..Len(l.buf) |->
                        IF i - 1 < l.pos THEN l.buf[i]
                        ELSE IF i - 1 = l.pos THEN c
                        ELSE IF i - 1 <= l.len THEN l.buf[i - 1]
                        ELSE l.buf[i]]
              IN RefreshLine([l EXCEPT
                           !.buf = Store(moved, l.len + 1, 0),
                           !.len = l.len + 1,
                           !.pos = l.pos + 1])
    ELSE l

\* a LinenoiseEditMoveLeft that refreshes also when the cursor stays
LinenoiseEditMoveLeft_AlwaysRefresh(l) ==
    RefreshLine(IF l.pos > 0 THEN [l EXCEPT !.pos = l.pos - 1] ELSE l)

LinenoiseEditMoveLeft(l) ==
    IF l.pos > 0 THEN RefreshLine([l EXCEPT !.pos = l.pos - 1]) ELSE l

LinenoiseEditMoveRight(l) ==
    IF l.pos # l.len THEN RefreshLine([l EXCEPT !.pos = l.pos + 1]) ELSE l

LinenoiseEditMoveHome(l) ==
    IF l.pos # 0 THEN RefreshLine([l EXCEPT !.pos = 0]) ELSE l

LinenoiseEditMoveEnd(l) ==
    IF l.pos # l.len THEN RefreshLine([l EXCEPT !.pos = l.len]) ELSE l

\* memmove(buf + pos, buf + pos + 1, len - pos - 1); len--; buf[len] = 0
LinenoiseEditDelete(l) ==
    IF l.len > 0 /\ l.pos < l.len
    THEN LET moved ==
               [i \in 1..Len(l.buf) |->
                   IF i - 1 >= l.pos /\ i - 1 < l.len - 1
                   THEN l.buf[i + 1] ELSE l.buf[i]]
         IN RefreshLine([l EXCEPT !.buf = Store(moved, l.len - 1, 0),
                                  !.len = l.len - 1])
    ELSE l

\* memmove(buf + pos - 1, buf + pos, len - pos); pos--; len--; buf[len] = 0
LinenoiseEditBackspace(l) ==
    IF l.pos > 0 /\ l.len > 0
    THEN LET moved ==
               [i \in 1..Len(l.buf) |->
                   IF i - 1 >= l.pos - 1 /\ i - 1 < l.len - 1
                   THEN l.buf[i + 1] ELSE l.buf[i]]
         IN RefreshLine([l EXCEPT !.buf = Store(moved, l.len - 1, 0),
                                  !.pos = l.pos - 1,
                                  !.len = l.len - 1])
    ELSE l

\* the two loops of LinenoiseEditDeletePrevWord
RECURSIVE SkipSpaces(_, _)
SkipSpaces(b, p) ==
    IF p > 0 /\ At(b, p - 1) = SPACE THEN SkipSpaces(b, p - 1) ELSE p
RECURSIVE SkipWord(_, _)
SkipWord(b, p) ==
    IF p > 0 /\ At(b, p - 1) # SPACE THEN SkipWord(b, p - 1) ELSE p

\* a LinenoiseEditDeletePrevWord without its first loop: the spaces before
\* the cursor stop it
LinenoiseEditDeletePrevWord_WordOnly(l) ==
    LET old_pos == l.pos
        np == SkipWord(l.buf, l.pos)
        diff == old_pos - np
        moved ==
            [i \in 1..Len(l.buf) |->
                IF i - 1 >= np /\ i - 1 <= np + (l.len - old_pos)
                THEN l.buf[i + diff] ELSE l.buf[i]]
    IN RefreshLine([l EXCEPT !.buf = moved, !.pos = np, !.len = l.len - diff])

\* memmove(buf + pos, buf + old_pos, len - old_pos + 1); len -= diff
LinenoiseEditDeletePrevWord(l) ==
    LET old_pos == l.pos
        np == SkipWord(l.buf, SkipSpaces(l.buf, l.pos))
        diff == old_pos - np
        moved ==
            [i \in 1..Len(l.buf) |->
                IF i - 1 >= np /\ i - 1 <= np + (l.len - old_pos)
                THEN l.buf[i + diff] ELSE l.buf[i]]
    IN RefreshLine([l EXCEPT !.buf = moved, !.pos = np, !.len = l.len - diff])

\* CTRL_T of LinenoiseEdit
Transpose(l) ==
    IF l.pos > 0 /\ l.pos < l.len
    THEN LET sw == Store(Store(l.buf, l.pos - 1, At(l.buf, l.pos)),
                         l.pos, At(l.buf, l.pos - 1))
         IN RefreshLine([l EXCEPT !.buf = sw,
                         !.pos = IF l.pos # l.len - 1 THEN l.pos + 1 ELSE l.pos])
    ELSE l

\* CTRL_U of LinenoiseEdit
KillLine(l) ==
    RefreshLine([l EXCEPT !.buf = Store(l.buf, 0, 0), !.pos = 0, !.len = 0])

\* CTRL_K of LinenoiseEdit
KillToEnd(l) ==
    RefreshLine([l EXCEPT !.buf = Store(l.buf, l.pos, 0), !.len = l.pos])

\* memset(buf, 0, buflen); pos = 0; refresh.  len is not assigned.
LinenoiseClearBuffer(l) ==
    RefreshLine([l EXCEPT !.buf = memset0(l.buf, l.buflen), !.pos = 0])


\* ----------------------------------------------------------------- history
\* The live entries history[0 .. history_len-1] are the sequence l.history;
\* history_len is kept beside it because the code can take it below zero.
\* A slot index outside [0, history_len-1] is outside the live entries: the
\* access is undefined behaviour (ub), a read there yields garbage and a
\* write there is lost to the model.
InHistory(l, j) == j >= 0 /\ j < l.history_len /\ j < Len(l.history)

\* LinenoiseHistoryAdd without the eviction at full capacity
LinenoiseHistoryAdd_NoEvict(l, line, g) ==
    IF l.history_max_len = 0 THEN l
    ELSE IF l.history_len # 0 /\ Len(l.history) > 0
            /\ l.history[Len(l.history)] = line
         THEN [l EXCEPT !.halloc = TRUE]
    ELSE [l EXCEPT !.halloc = TRUE,
                   !.history = Append(l.history, line),
                   !.history_len = l.history_len + 1]

\* LinenoiseHistoryAdd without the comparison with the last entry
LinenoiseHistoryAdd_NoDupCheck(l, line, g) ==
    IF l.history_max_len = 0 THEN l
    ELSE LET l2 == IF l.history_len = l.history_max_len /\ Len(l.history) > 0
                   THEN [l EXCEPT !.history = Tail(l.history),
                                  !.history_len = l.history_len - 1]
                   ELSE l
         IN [l2 EXCEPT !.halloc = TRUE,
                       !.history = Append(l2.history, line),
                       !.history_len = l2.history_len + 1]

\* LinenoiseHistoryAdd; g is what strcmp makes of a slot outside the array
\* (TRUE: "equal")
LinenoiseHistoryAdd(l, line, g) ==
    IF l.history_max_len = 0 THEN l
    ELSE
    LET l0 == [l EXCEPT !.halloc = TRUE]
        oob == l0.history_len # 0 /\ ~InHistory(l0, l0.history_len - 1)
        dup == /\ l0.history_len # 0
               /\ IF oob THEN g ELSE l0.history[l0.history_len] = line
        l1 == IF oob THEN [l0 EXCEPT !.ub = TRUE] ELSE l0
    IN IF dup THEN l1
       ELSE LET l2 == IF l1.history_len = l1.history_max_len
                      THEN [l1 EXCEPT !.history = Tail(l1.history),
                                      !.history_len = l1.history_len - 1]
                      ELSE l1
            IN IF l2.history_len >= 0
               THEN [l2 EXCEPT !.history = Append(l2.history, line),
                               !.history_len = l2.history_len + 1]
               ELSE [l2 EXCEPT !.history_len = l2.history_len + 1,
                               !.ub = TRUE]

\* the value LinenoiseHistoryAdd returns
HistoryAddReturns(l, line, g) ==
    IF l.history_max_len = 0 THEN 0
    ELSE IF /\ l.history_len # 0
            /\ IF InHistory(l, l.history_len - 1)
               THEN l.history[l.history_len] = line ELSE g
         THEN 0 ELSE 1

\* LinenoiseHistoryLoad of a file whose lines are lines: one
\* LinenoiseHistoryAdd for each line, in the order of the file
RECURSIVE LinenoiseHistoryLoad(_, _, _)
LinenoiseHistoryLoad(l, lines, g) ==
    IF lines = <<>> THEN l
    ELSE LinenoiseHistoryLoad(LinenoiseHistoryAdd(l, Head(lines), g),
                              Tail(lines), g)

\* LinenoiseHistorySave: the bytes fprintf(fp, "%s\n", history[j]) writes for
\* j = 0 .. history_len - 1
RECURSIVE SaveFrom(_, _)
SaveFrom(l, j) ==
    IF j >= l.history_len THEN <<>>
    ELSE (IF InHistory(l, j) THEN l.history[j + 1] ELSE <<>>)
         \o <<CH_LF>> \o SaveFrom(l, j + 1)
LinenoiseHistorySave(l) == SaveFrom(l, 0)
\* TRUE when the loop of LinenoiseHistorySave reads a slot that is not there
HistorySaveReadsOutside(l) ==
    \E j \in 0..(l.history_len - 1) : ~InHistory(l, j)

\* fgets(buf, n, fp): the number of bytes it takes from the rest of the
\* file, at most n - 1 and none behind the first newline (k: taken so far)
RECURSIVE FgetsLen(_, _, _)
FgetsLen(bytes, n, k) ==
    IF k >= n - 1 \/ k >= Len(bytes) THEN k
    ELSE IF bytes[k + 1] = CH_LF THEN k + 1
    ELSE FgetsLen(bytes, n, k + 1)

\* p = strchr(buf, '\r'); if (!p) p = strchr(buf, '\n'); if (p) *p = 0
StripLine(chunk) ==
    LET cr == {i \in 1..Len(chunk) : chunk[i] = ENTER}
        lf == {i \in 1..Len(chunk) : chunk[i] = CH_LF}
        cut == IF cr # {} THEN cr ELSE lf
    IN IF cut = {} THEN chunk
       ELSE SubSeq(chunk, 1, (CHOOSE i \in cut : \A k \in cut : i <= k) - 1)

\* the strings the loop of LinenoiseHistoryLoad hands to LinenoiseHistoryAdd
\* for a file that holds bytes
RECURSIVE FileLines(_)
FileLines(bytes) ==
    IF bytes = <<>> THEN <<>>
    ELSE LET k == FgetsLen(bytes, LINENOISE_MAX_LINE, 0)
         IN <<StripLine(SubSeq(bytes, 1, k))>>
            \o FileLines(SubSeq(bytes, k + 1, Len(bytes)))

\* a LinenoiseHistorySetMaxLen whose memcpy starts at history[0]: it keeps
\* the oldest entries
LinenoiseHistorySetMaxLen_KeepsOldest(l, n) ==
    IF n < 1 THEN l
    ELSE
    LET tocopy == IF n < l.history_len THEN n ELSE l.history_len
        kept == IF ~l.halloc THEN l.history
                ELSE IF tocopy < 0 THEN l.history
                ELSE SubSeq(l.history, 1, tocopy)
        l1 == [l EXCEPT !.history = kept, !.history_max_len = n,
                        !.history_len = IF l.history_len > n THEN n
                                        ELSE l.history_len]
    IN IF l.halloc /\ tocopy < 0 THEN [l1 EXCEPT !.ub = TRUE] ELSE l1

\* LinenoiseHistorySetMaxLen
LinenoiseHistorySetMaxLen(l, n) ==
    IF n < 1 THEN l
    ELSE
    LET tocopy == IF n < l.history_len THEN n ELSE l.history_len
        kept == IF ~l.halloc THEN l.history
                ELSE IF tocopy < 0 THEN l.history
                ELSE SubSeq(l.history, l.history_len - tocopy + 1, l.history_len)
        l1 == [l EXCEPT !.history = kept, !.history_max_len = n,
                        !.history_len = IF l.history_len > n THEN n
                                        ELSE l.history_len]
    IN \* memcpy with a negative count when history_len < 0
       IF l.halloc /\ tocopy < 0 THEN [l1 EXCEPT !.ub = TRUE] ELSE l1

\* the value LinenoiseHistorySetMaxLen returns
HistorySetMaxLenReturns(l, n) == IF n < 1 THEN 0 ELSE 1

\* FreeHistory
FreeHistory(l) ==
    [l EXCEPT !.history = <<>>, !.history_len = 0, !.halloc = FALSE]

\* LinenoiseEditHistoryNext
LinenoiseEditHistoryNext(l, dir) ==
    IF l.history_len > 1
    THEN LET slot == l.history_len - 1 - l.history_index
             l1 == IF InHistory(l, slot)
                   THEN [l EXCEPT !.history[slot + 1] = strdup(l.buf)]
                   ELSE [l EXCEPT !.ub = TRUE]
             idx == l.history_index
                    + (IF dir = LINENOISE_HISTORY_PREV THEN 1 ELSE -1)
         IN IF idx < 0 THEN [l1 EXCEPT !.history_index = 0]
            ELSE IF idx >= l.history_len
                 THEN [l1 EXCEPT !.history_index = l.history_len - 1]
            ELSE LET e == l1.history[l.history_len - 1 - idx + 1]
                     b1 == Store(strncpy(l.buf, e, l.buflen), l.buflen - 1, 0)
                 IN RefreshLine([l1 EXCEPT !.history_index = idx,
                                           !.buf = b1,
                                           !.len = strlen(b1),
                                           !.pos = strlen(b1)])
    ELSE l


\* --------------------------------------------------------------- raw mode
\* EnableRawMode on success: the snapshot is taken, and the flag is
\* assigned false (linenoise.c:234)
EnableRawMode(l, t) == [l EXCEPT !.orig_termios = t, !.rawmode = FALSE]

\* DisableRawMode; ok is whether tcsetattr succeeds
DisableRawMode(l, ok) ==
    IF l.rawmode /\ ok THEN [l EXCEPT !.rawmode = FALSE] ELSE l
\* the terminal attributes DisableRawMode leaves
DisableRawModeTty(l, t, ok) ==
    IF l.rawmode /\ ok THEN l.orig_termios ELSE t

\* ------------------------------------------------------------- completion
\* what the completion callback of the host may put in the list: nothing,
\* one candidate, or two of which the second is longer than the edit buffer
ShortCand == <<CH_h, CH_a>>
LongCand == [k \in 1..(LINENOISE_MAX_LINE + 1) |-> CH_a]
CandLists == {<<>>, <<ShortCand>>, <<LongCand, ShortCand>>}

\* CompleteLine showing candidate cand: len, pos and buf are swapped for the
\* refresh and put back; what the refresh stored in the struct stays
ShowCompletion(l, cand) ==
    LET t == [l EXCEPT !.len = Len(cand), !.pos = Len(cand)]
        r == IF l.mlmode THEN RefreshMultiLine(t) ELSE RefreshSingleLine(t)
    IN [r EXCEPT !.len = l.len, !.pos = l.pos]

\* the display step at the top of the loop of CompleteLine
CompleteLineShow(l, cands, k) ==
    IF k < Len(cands) THEN ShowCompletion(l, cands[k + 1]) ELSE RefreshLine(l)

\* default branch of the switch of CompleteLine: commit candidate k
CompleteLineCommit(l, cands, k) ==
    IF k < Len(cands)
    THEN [l EXCEPT !.buf = snprintf(l.buf, l.buflen, cands[k + 1]),
                   !.len = Len(cands[k + 1]),
                   !.pos = Len(cands[k + 1])]
    ELSE l

\* what CompleteLine returns to LinenoiseEdit when it read byte c and left
\* its loop: "return c", for ESC as for any other byte
CompleteLineReturns(c) == c

\* ----------------------------------------------------------- key dispatch
\* ENTER of LinenoiseEdit
EnterKey(l, hc) ==
    LET l1 == IF l.history_len > 0
              THEN [l EXCEPT !.history_len = l.history_len - 1,
                             !.history = SubSeq(l.history, 1, l.history_len - 1)]
              ELSE l
        l2 == IF l1.mlmode THEN LinenoiseEditMoveEnd(l1) ELSE l1
    IN IF hc THEN RefreshLine(l2) ELSE l2

\* an ENTER case that leaves the hints callback in place for its refresh
EnterRefreshes_HintsOn(l, hc) ==
    (IF l.mlmode /\ l.pos # l.len
     THEN <<RefreshShowHints([l EXCEPT !.pos = l.len], hc)>> ELSE <<>>)
    \o (IF hc THEN <<RefreshShowHints(l, hc)>> ELSE <<>>)

\* the refreshes of the ENTER case, in order, each given by the hint bytes
\* it renders: the one of LinenoiseEditMoveEnd, made with the callback in
\* place, and the one made with l_HintsCallback = NULL
EnterRefreshes(l, hc) ==
    (IF l.mlmode /\ l.pos # l.len
     THEN <<RefreshShowHints([l EXCEPT !.pos = l.len], hc)>> ELSE <<>>)
    \o (IF hc THEN <<RefreshShowHints(l, FALSE)>> ELSE <<>>)

\* CTRL_D of LinenoiseEdit with len = 0: history_len--, free(history[history_len])
CtrlDEof(l) ==
    IF InHistory(l, l.history_len - 1)
    THEN [l EXCEPT !.history_len = l.history_len - 1,
                   !.history = SubSeq(l.history, 1, l.history_len - 1)]
    ELSE [l EXCEPT !.history_len = l.history_len - 1, !.ub = TRUE]

\* the keys of the switch of LinenoiseEdit that keep the loop running
EditKey(l, c, hc) ==
    IF l.len > l.buflen /\ c # CTRL_U
    THEN \* len is beyond the array: the operation reads or writes past it
         [l EXCEPT !.ub = TRUE]
    ELSE
    CASE c = BACKSPACE \/ c = CTRL_H -> LinenoiseEditBackspace(l)
      [] c = CTRL_D -> LinenoiseEditDelete(l)
      [] c = CTRL_T -> Transpose(l)
      [] c = CTRL_B -> LinenoiseEditMoveLeft(l)
      [] c = CTRL_F -> LinenoiseEditMoveRight(l)
      [] c = CTRL_P -> LinenoiseEditHistoryNext(l, LINENOISE_HISTORY_PREV)
      [] c = CTRL_N -> LinenoiseEditHistoryNext(l, LINENOISE_HISTORY_NEXT)
      [] c = CTRL_U -> KillLine(l)
      [] c = CTRL_K -> KillToEnd(l)
      [] c = CTRL_A -> LinenoiseEditMoveHome(l)
      [] c = CTRL_E -> LinenoiseEditMoveEnd(l)
      [] c = CTRL_L -> RefreshLine(l)
      [] c = CTRL_W -> LinenoiseEditDeletePrevWord(l)
      [] OTHER -> LinenoiseEditInsert(l, c, hc)

\* the escape sequences of LinenoiseEdit: seq0, seq1 and, after a digit, seq2
EscapeKey(l, s0, s1, s2) ==
    IF l.len > l.buflen THEN [l EXCEPT !.ub = TRUE]
    ELSE
    IF s0 = CH_LBRACKET
    THEN IF s1 >= 48 /\ s1 <= 57
         THEN IF s2 = CH_TILDE /\ s1 = CH_3 THEN LinenoiseEditDelete(l) ELSE l
         ELSE CASE s1 = CH_A -> LinenoiseEditHistoryNext(l, LINENOISE_HISTORY_PREV)
                [] s1 = CH_B -> LinenoiseEditHistoryNext(l, LINENOISE_HISTORY_NEXT)
                [] s1 = CH_C -> LinenoiseEditMoveRight(l)
                [] s1 = CH_D -> LinenoiseEditMoveLeft(l)
                [] s1 = CH_H -> LinenoiseEditMoveHome(l)
                [] s1 = CH_F -> LinenoiseEditMoveEnd(l)
                [] OTHER -> l
    ELSE IF s0 = CH_O
    THEN CASE s1 = CH_H -> LinenoiseEditMoveHome(l)
           [] s1 = CH_F -> LinenoiseEditMoveEnd(l)
           [] OTHER -> l
    ELSE l

\* a CTRL_C case that drops the newest history entry as the ENTER case does
CtrlCKey_DropsEntry(l) ==
    IF l.history_len > 0
    THEN [l EXCEPT !.errno = "EAGAIN",
                   !.history_len = l.history_len - 1,
                   !.history = SubSeq(l.history, 1, l.history_len - 1)]
    ELSE [l EXCEPT !.errno = "EAGAIN"]

\* case CTRL_C of LinenoiseEdit: errno = EAGAIN, then "return -1"
CtrlCKey(l) == [l EXCEPT !.errno = "EAGAIN"]

\* one pass of the switch of LinenoiseEdit on byte c: the struct it leaves,
\* where control goes (next) and, on return, the value returned (count).
\* wfail is whether the one-byte write of the insert fast path fails.
Dispatch(l, c, hc, wfail) ==
    CASE c = ENTER ->
           LET r == EnterKey(l, hc)
           IN [l |-> r, next |-> "return", count |-> r.len]
      [] c = CTRL_C -> [l |-> CtrlCKey(l), next |-> "return", count |-> -1]
      [] c = CTRL_D /\ ~(l.len > 0) ->
           [l |-> CtrlDEof(l), next |-> "return", count |-> -1]
      [] c = ESC -> [l |-> l, next |-> "esc1", count |-> 0]
      [] OTHER ->
           LET r == EditKey(l, c, hc)
               ins == c \notin {BACKSPACE, CTRL_H, CTRL_D, CTRL_T, CTRL_B,
                                CTRL_F, CTRL_P, CTRL_N, CTRL_U, CTRL_K,
                                CTRL_A, CTRL_E, CTRL_L, CTRL_W}
           IN IF ins /\ wfail /\ InsertFastPath(l, hc)
              THEN [l |-> r, next |-> "return", count |-> -1]
              ELSE [l |-> r, next |-> "edit", count |-> 0]


\* ------------------------------------------------------------------ state
VARIABLES
    ls,                   \* the LinenoiseState struct of the session
    tty,                  \* the termios attributes the terminal has now
    l_CompletionCallback, \* TRUE when a completion callback is registered
    l_HintsCallback,      \* TRUE when a hints callback is registered
    mode,                 \* where the program is: "host", in LinenoiseEdit
                          \* ("edit", "esc1", "esc2", "csi"), in CompleteLine
                          \* ("compl"), or "crashed"
    seq,                  \* the bytes of the escape sequence read so far
    lc,                   \* CompleteLine: the completion list
    lc_i,                 \* CompleteLine: the index i
    ret,                  \* what the last Linenoise() call returned
    last,                 \* the last operation: its name and its byte
    nkeys,                \* bytes read from the terminal so far
    nhost,                \* host calls made so far
    ncalls,               \* Linenoise() calls made so far
    budget,               \* the bounds and the input alphabets of this run
    typed,                \* the printable bytes typed into a fresh session,
                          \* Spoiled once anything else has happened
    added,                \* the lines LinenoiseHistoryAdd has stored, oldest
                          \* first, SpoiledAdds once the host did anything
                          \* else to the history
    ups                   \* the number of times "previous entry" was pressed
                          \* in this call when nothing else was, else -1

vars == <<ls, tty, l_CompletionCallback, l_HintsCallback, mode, seq, lc, lc_i,
          ret, last, nkeys, nhost, ncalls, budget, typed, added, ups>>

\* terminal widths GetColumns may report: not wider than the prompt, narrower
\* than prompt + line, and wide
WideCols == PromptLen + LINENOISE_MAX_LINE + 2
NarrowCols == PromptLen + 2
ColsSet == {PromptLen, NarrowCols, WideCols}
\* terminals not wider than the prompt
TightCols == {PromptLen - 1, PromptLen}

\* lines the host passes to history_add
HostLines == {<<CH_a>>, <<CH_h>>}
\* the history files LinenoiseHistoryLoad may find
HistoryFiles == {<<>>, <<CH_h, CH_LF, CH_a, CH_LF>>}
\* a line as long as the edit buffer takes: buflen bytes
LongLine == [i \in 1..(LINENOISE_MAX_LINE - 1) |-> CH_a]
\* the history files of a browse run: one holds that line
BrowseFiles == HistoryFiles \cup {LongLine \o <<CH_LF>>}
\* lines read from an input that is no terminal
StdinLines == {<<CH_h>>}

\* bytes the terminal delivers in each decoder state of an editing run
IdleKeys == {CTRL_A, CTRL_B, CTRL_C, CTRL_D, CTRL_E, CTRL_F, CTRL_H, TAB,
             CTRL_K, CTRL_L, ENTER, CTRL_N, CTRL_P, CTRL_T, CTRL_U, CTRL_W,
             ESC, BACKSPACE, SPACE, CH_a, KEY_NULL}
Esc1Keys == {CH_LBRACKET, CH_O, ENTER}
Esc2Keys == {CH_A, CH_B, CH_C, CH_D, CH_H, CH_F, CH_3, ENTER}
CsiKeys == {CH_TILDE, CH_a}
ComplKeys == {TAB, ESC, ENTER, CH_a, KEY_NULL, HighByte}
\* and of a session run: the keys that end a call, browse the history, start
\* a completion or an escape sequence, and one letter
SessionIdleKeys == {ENTER, CTRL_C, CTRL_D, CTRL_P, TAB, ESC, CH_a}
SessionEsc2Keys == {CH_A, CH_B, CH_3, ENTER}
SessionComplKeys == {TAB, ESC, ENTER, CTRL_C, CH_a}
\* and of a word run
WordIdleKeys == {CTRL_W, CTRL_B, SPACE, CH_a, ENTER, TAB, ESC}
\* and of a browse run
BrowseIdleKeys == {CTRL_P, CTRL_N, ENTER, TAB, ESC, CH_a}
\* and of a refresh run
RefreshIdleKeys == {CH_a, CTRL_A, CTRL_B, ENTER, TAB, ESC}
\* the capacities the host passes to history_set_max_len
\* the keys of the edit operations of LinenoiseEdit
OpKeys == {CH_a, CTRL_A, CTRL_B, CTRL_E, CTRL_F, CTRL_D, BACKSPACE, CTRL_K,
           CTRL_U, CTRL_W, CTRL_T, CTRL_P, CTRL_N}
OpIdleKeys == OpKeys \cup {ENTER, TAB, ESC}
MaxLens == 0..LINENOISE_DEFAULT_HISTORY_MAX_LEN
BrowseMaxLens == {0, LINENOISE_DEFAULT_HISTORY_MAX_LEN + 1}

Printable(c) == c >= 32 /\ c <= 126
Spoiled == <<0>>
SpoiledAdds == <<Spoiled>>
NoRet == [kind |-> "none", line |-> <<>>]
NullRet == [kind |-> "null", line |-> <<>>]
LineRet(s) == [kind |-> "line", line |-> s]
Op(name, c) == [op |-> name, key |-> c, arg |-> <<>>, bell |-> FALSE]
OpLine(name, c, line) == [op |-> name, key |-> c, arg |-> line, bell |-> FALSE]
\* an operation during which LinenoiseBeep was called (b)
OpBell(name, c, b) == [op |-> name, key |-> c, arg |-> <<>>, bell |-> b]

\* LinenoiseCreate
LinenoiseCreate(columns) ==
    LinenoiseHistoryAdd(
        [buf |-> ZeroBuf, buflen |-> LINENOISE_MAX_LINE - 1,
         plen |-> PromptLen, pos |-> 0, oldpos |-> 0, len |-> 0,
         cols |-> columns, maxrows |-> 0, history_index |-> 0,
         orig_termios |-> ZeroTermios, rawmode |-> FALSE, mlmode |-> FALSE,
         history_max_len |-> LINENOISE_DEFAULT_HISTORY_MAX_LEN,
         history_len |-> 0, history |-> <<>>, halloc |-> FALSE,
         errno |-> "0", ub |-> FALSE, nrefresh |-> 0],
        <<>>, FALSE)

\* the state after LinenoiseCreate on a terminal whose width is in widths
Created(widths) ==
    /\ \E columns \in widths : ls = LinenoiseCreate(columns)
    /\ tty = CookedTermios
    /\ l_CompletionCallback = FALSE
    /\ l_HintsCallback = FALSE
    /\ mode = "host"
    /\ seq = <<>>
    /\ lc = <<>>
    /\ lc_i = 0
    /\ ret = NoRet
    /\ last = Op("create", 0)
    /\ nkeys = 0
    /\ nhost = 0
    /\ ncalls = 0
    /\ typed = <<>>
    /\ added = <<>>
    /\ ups = -1

EditBudget ==
    [keys |-> MaxKeys, host |-> MaxPrep, calls |-> 1,
     steps |-> MaxPrep + 1 + MaxKeys,
     idle |-> IdleKeys, esc1 |-> Esc1Keys, esc2 |-> Esc2Keys,
     csi |-> CsiKeys, compl |-> ComplKeys,
     maxlens |-> MaxLens, files |-> HistoryFiles]
SessionBudget ==
    [keys |-> MaxSessionKeys, host |-> MaxHost, calls |-> MaxCalls,
     steps |-> MaxSessionSteps,
     idle |-> SessionIdleKeys, esc1 |-> Esc1Keys, esc2 |-> SessionEsc2Keys,
     csi |-> CsiKeys, compl |-> SessionComplKeys,
     maxlens |-> MaxLens, files |-> HistoryFiles]
WordBudget ==
    [keys |-> MaxWordKeys, host |-> MaxPrep, calls |-> 1,
     steps |-> MaxPrep + 1 + MaxWordKeys,
     idle |-> WordIdleKeys, esc1 |-> Esc1Keys, esc2 |-> SessionEsc2Keys,
     csi |-> CsiKeys, compl |-> SessionComplKeys,
     maxlens |-> MaxLens, files |-> HistoryFiles]
BrowseBudget ==
    [keys |-> MaxBrowseKeys, host |-> MaxHost, calls |-> MaxCalls,
     steps |-> MaxHost + MaxCalls + MaxBrowseKeys,
     idle |-> BrowseIdleKeys, esc1 |-> Esc1Keys, esc2 |-> SessionEsc2Keys,
     csi |-> CsiKeys, compl |-> SessionComplKeys,
     maxlens |-> BrowseMaxLens, files |-> BrowseFiles]
RefreshBudget ==
    [keys |-> MaxRefreshKeys, host |-> MaxHost, calls |-> 1,
     steps |-> MaxHost + MaxRefreshKeys,
     idle |-> RefreshIdleKeys, esc1 |-> Esc1Keys, esc2 |-> SessionEsc2Keys,
     csi |-> CsiKeys, compl |-> SessionComplKeys,
     maxlens |-> MaxLens, files |-> HistoryFiles]
OpBudget ==
    [keys |-> MaxOpKeys, host |-> MaxPrep, calls |-> 1,
     steps |-> MaxPrep + 1 + MaxOpKeys,
     idle |-> OpIdleKeys, esc1 |-> Esc1Keys, esc2 |-> SessionEsc2Keys,
     csi |-> CsiKeys, compl |-> SessionComplKeys \cup {CTRL_B},
     maxlens |-> MaxLens, files |-> HistoryFiles]

Init == Created(ColsSet) /\ budget = EditBudget
\* a session run is on a wide terminal
InitSession == Created({WideCols}) /\ budget = SessionBudget
\* and so is a word run
InitWords == Created({WideCols}) /\ budget = WordBudget
\* and a browse run
InitBrowse == Created({WideCols}) /\ budget = BrowseBudget
\* a refresh run is on a narrow or a wide terminal
InitRefresh == Created({NarrowCols, WideCols}) /\ budget = RefreshBudget

\* the struct r of a step that started from ls: the ub mark stays once set
\* and the count of refreshes starts anew
Merged(r) == [r EXCEPT !.ub = r.ub \/ ls.ub, !.nrefresh = 0]
\* the struct a step starts from, with the mark cleared so that r.ub tells
\* whether this step executed undefined behaviour
Start == [ls EXCEPT !.ub = FALSE]

\* the run may take another counted step
StepsLeft == nhost + ncalls + nkeys < budget.steps

\* What is left alone by a step inside LinenoiseEdit.
EditFrame == UNCHANGED <<l_CompletionCallback, l_HintsCallback, nhost, ncalls, budget>>

\* A step that executed undefined behaviour may kill the process.
Crash(r) ==
    /\ r.ub
    /\ mode' = "crashed"
    /\ ls' = Merged(r)
    /\ UNCHANGED <<tty, seq, ret>>

\* LinenoiseEdit returns count with the terminal at t: LinenoiseRaw disables
\* raw mode and Linenoise returns NULL for -1 and strdup(buf) otherwise
Return(r, count, t) ==
    /\ \E ok \in (IF r.rawmode THEN BOOLEAN ELSE {TRUE}) :
          /\ ls' = Merged(DisableRawMode(r, ok))
          /\ tty' = DisableRawModeTty(r, t, ok)
    /\ ret' = IF count = -1 THEN NullRet ELSE LineRet(strdup(r.buf))
    /\ mode' = "host"
    /\ seq' = <<>>

\* where a pass of the switch leaves the program
Land(d) ==
    \/ Crash(d.l)
    \/ /\ d.next = "return"
       /\ Return(d.l, d.count, tty)
    \/ /\ d.next # "return"
       /\ ls' = Merged(d.l)
       /\ mode' = d.next
       /\ seq' = <<>>
       /\ UNCHANGED <<tty, ret>>

\* the ghost typed after byte c was read in the main loop
TypedAfter(c, wfail) ==
    IF typed = Spoiled THEN Spoiled
    ELSE IF c = ENTER THEN typed
    ELSE IF Printable(c) /\ Len(typed) < ls.buflen /\ ~wfail
         THEN Append(typed, c)
    ELSE Spoiled

\* the ghost ups after byte c was read in the main loop
UpsAfter(c) ==
    IF ups < 0 THEN -1
    ELSE IF c = CTRL_P THEN ups + 1
    ELSE IF c \in {ENTER, ESC} THEN ups
    ELSE IF c = CTRL_D /\ ~(ls.len > 0) THEN ups
    ELSE -1

\* the ghost ups after byte b of an escape sequence that began with s0
UpsAfterEscape(s0, b) ==
    IF ups < 0 THEN -1
    ELSE IF mode = "esc1" THEN (IF b = CH_LBRACKET THEN ups ELSE -1)
    ELSE IF mode = "esc2" /\ s0 = CH_LBRACKET /\ b = CH_A THEN ups + 1
    ELSE -1

\* the ghost added after LinenoiseHistoryAdd(line) returned rv on struct l
AddedAfter(l, line, rv) ==
    IF added = SpoiledAdds \/ rv = 0 THEN added
    ELSE IF \/ \E i \in 1..Len(added) : added[i] = line
            \/ /\ l.history_len = l.history_max_len
               /\ \E i \in 1..Len(added) : InHistory(l, 0) /\ added[i] = l.history[1]
         THEN SpoiledAdds
    ELSE Append(added, line)

\* a step after which neither typed nor ups describes the run
GhostSpoil ==
    /\ typed' = Spoiled
    /\ ups' = -1
    /\ UNCHANGED added

\* ------------------------------------------------------------ Linenoise()
\* Linenoise on a terminal: buf[0] = 0, LinenoiseRaw enables raw mode and
\* LinenoiseEdit writes the prompt (pfail: that write fails)
LinenoiseCall ==
    /\ mode = "host"
    /\ ncalls < budget.calls /\ StepsLeft
    /\ ncalls' = ncalls + 1
    /\ UNCHANGED budget
    /\ LET l1 == EnableRawMode([Start EXCEPT !.buf = Store(ls.buf, 0, 0)], tty)
       IN \E pfail \in BOOLEAN :
            IF pfail
            THEN /\ Return(l1, -1, MakeRaw(tty))
                 /\ typed' = Spoiled
                 /\ ups' = -1
            ELSE /\ ls' = Merged(l1)
                 /\ tty' = MakeRaw(tty)
                 /\ mode' = "edit"
                 /\ ret' = NoRet
                 /\ seq' = <<>>
                 /\ typed' = typed
                 /\ ups' = 0
    /\ last' = Op("call", 0)
    /\ UNCHANGED <<l_CompletionCallback, l_HintsCallback, lc, lc_i, nkeys,
                   nhost, added>>

\* Linenoise on a terminal whose attributes cannot be read or set:
\* EnableRawMode fails, after the snapshot (captured) or before it
LinenoiseEnableFails ==
    /\ mode = "host"
    /\ ncalls < budget.calls /\ StepsLeft
    /\ ncalls' = ncalls + 1
    /\ UNCHANGED budget
    /\ \E captured \in BOOLEAN :
         ls' = [ls EXCEPT !.buf = Store(ls.buf, 0, 0),
                          !.orig_termios = IF captured THEN tty ELSE @,
                          !.errno = "ENOTTY"]
    /\ ret' = NullRet
    /\ GhostSpoil
    /\ last' = Op("call", 0)
    /\ UNCHANGED <<tty, l_CompletionCallback, l_HintsCallback, mode, seq, lc,
                   lc_i, nkeys, nhost>>

\* Linenoise when the input is no terminal: LinenoiseNoTTY returns a line of
\* stdin, or NULL at end of file
LinenoiseNoTTY ==
    /\ mode = "host"
    /\ ncalls < budget.calls /\ StepsLeft
    /\ ncalls' = ncalls + 1
    /\ UNCHANGED budget
    /\ ls' = [ls EXCEPT !.buf = Store(ls.buf, 0, 0)]
    /\ ret' \in {NullRet} \cup {LineRet(s) : s \in StdinLines}
    /\ GhostSpoil
    /\ last' = Op("call", 0)
    /\ UNCHANGED <<tty, l_CompletionCallback, l_HintsCallback, mode, seq, lc,
                   lc_i, nkeys, nhost>>

\* Linenoise on an unsupported terminal: fgets into buf, strip the newline
LinenoiseUnsupportedTerm ==
    /\ mode = "host"
    /\ ncalls < budget.calls /\ StepsLeft
    /\ ncalls' = ncalls + 1
    /\ UNCHANGED budget
    /\ \/ /\ ls' = [ls EXCEPT !.buf = Store(ls.buf, 0, 0)]
          /\ ret' = NullRet
       \/ \E s \in StdinLines :
            LET b1 == snprintf(Store(ls.buf, 0, 0), ls.buflen, s)
            IN /\ ls' = [ls EXCEPT !.buf = b1]
               /\ ret' = LineRet(strdup(b1))
    /\ GhostSpoil
    /\ last' = Op("call", 0)
    /\ UNCHANGED <<tty, l_CompletionCallback, l_HintsCallback, mode, seq, lc,
                   lc_i, nkeys, nhost>>

\* ---------------------------------------------------------- LinenoiseEdit
\* the main loop reads byte c and runs the switch on it
ReadKey ==
    /\ mode = "edit"
    /\ nkeys < budget.keys /\ StepsLeft
    /\ \E c \in budget.idle :
         /\ ~(c = TAB /\ l_CompletionCallback)
         /\ \E wfail \in (IF InsertFastPath(ls, l_HintsCallback)
                          THEN BOOLEAN ELSE {FALSE}) :
              /\ Land(Dispatch(Start, c, l_HintsCallback, wfail))
              /\ typed' = TypedAfter(c, wfail)
         /\ ups' = UpsAfter(c)
         /\ last' = Op("key", c)
    /\ nkeys' = nkeys + 1
    /\ UNCHANGED <<lc, lc_i, added>>
    /\ EditFrame

\* the read of the main loop fails or returns 0: "return ls->len"
ReadFails ==
    /\ mode = "edit"
    /\ Return(Start, ls.len, tty)
    /\ GhostSpoil
    /\ last' = Op("readfail", 0)
    /\ UNCHANGED <<lc, lc_i, nkeys>>
    /\ EditFrame

\* ESC in the main loop: the next two bytes are read as seq[0] and seq[1], and
\* after "[" and a digit a third one as seq[2]
ReadEscape ==
    /\ mode \in {"esc1", "esc2", "csi"}
    /\ last.op # "esceof"
    /\ nkeys < budget.keys /\ StepsLeft
    /\ \/ /\ mode = "esc1"
          /\ \E b \in budget.esc1 :
               /\ seq' = <<b>>
               /\ last' = Op("esc", b)
               /\ ups' = UpsAfterEscape(b, b)
          /\ mode' = "esc2"
          /\ UNCHANGED <<ls, tty, ret>>
       \/ /\ mode = "esc2"
          /\ \E b \in budget.esc2 :
               /\ last' = Op("esc", b)
               /\ ups' = UpsAfterEscape(seq[1], b)
               /\ IF seq[1] = CH_LBRACKET /\ b >= 48 /\ b <= 57
                  THEN /\ seq' = <<seq[1], b>>
                       /\ mode' = "csi"
                       /\ UNCHANGED <<ls, tty, ret>>
                  ELSE Land([l |-> EscapeKey(Start, seq[1], b, 0),
                             next |-> "edit", count |-> 0])
       \/ /\ mode = "csi"
          /\ \E b \in budget.csi :
               /\ last' = Op("esc", b)
               /\ ups' = UpsAfterEscape(seq[1], b)
               /\ Land([l |-> EscapeKey(Start, seq[1], seq[2], b),
                        next |-> "edit", count |-> 0])
    /\ nkeys' = nkeys + 1
    /\ typed' = Spoiled
    /\ UNCHANGED <<lc, lc_i, added>>
    /\ EditFrame

\* a read inside an escape sequence returns 0 (end of input): only -1 is
\* tested, so the decoder goes on with the byte of seq that was never
\* assigned.  Its value is indeterminate: any byte b.  The end of input
\* stays: the later reads of the sequence return 0 as well.  nkeys counts
\* the read.
EscapeReadsNothing ==
    /\ mode \in {"esc1", "esc2", "csi"}
    /\ nkeys < budget.keys /\ StepsLeft
    /\ \/ /\ mode = "esc1"
          /\ \E b \in budget.esc1 :
               /\ seq' = <<b>>
               /\ last' = Op("esceof", b)
          /\ mode' = "esc2"
          /\ UNCHANGED <<ls, tty, ret>>
       \/ /\ mode = "esc2"
          /\ \E b \in budget.esc2 :
               /\ last' = Op("esceof", b)
               /\ IF seq[1] = CH_LBRACKET /\ b >= 48 /\ b <= 57
                  THEN /\ seq' = <<seq[1], b>>
                       /\ mode' = "csi"
                       /\ UNCHANGED <<ls, tty, ret>>
                  ELSE Land([l |-> EscapeKey(Start, seq[1], b, 0),
                             next |-> "edit", count |-> 0])
       \/ /\ mode = "csi"
          /\ \E b \in budget.csi :
               /\ last' = Op("esceof", b)
               /\ Land([l |-> EscapeKey(Start, seq[1], seq[2], b),
                        next |-> "edit", count |-> 0])
    /\ nkeys' = nkeys + 1
    /\ GhostSpoil
    /\ UNCHANGED <<lc, lc_i>>
    /\ EditFrame

\* a read inside an escape sequence returns -1: "break"
EscapeReadFails ==
    /\ mode \in {"esc1", "esc2", "csi"}
    /\ mode' = "edit"
    /\ seq' = <<>>
    /\ GhostSpoil
    /\ last' = Op("readfail", 0)
    /\ UNCHANGED <<ls, tty, ret, lc, lc_i, nkeys>>
    /\ EditFrame


\* ----------------------------------------------------------- CompleteLine
\* "char c" of LinenoiseEdit receives the int CompleteLine returns
AsChar(v) == IF v >= 128 THEN v - 256 ELSE v

\* TAB in the main loop with a completion callback registered: the callback
\* fills the list; an empty list rings the bell and CompleteLine returns 0
CompleteLineEnter ==
    /\ mode = "edit"
    /\ l_CompletionCallback
    /\ nkeys < budget.keys /\ StepsLeft
    /\ \E cands \in CandLists :
         /\ last' = OpBell("key", TAB, Len(cands) = 0)
         /\ IF Len(cands) = 0
            THEN /\ UNCHANGED <<ls, tty, ret, mode, seq, lc, lc_i>>
            ELSE LET r == CompleteLineShow(Start, cands, 0)
                 IN \/ Crash(r) /\ UNCHANGED <<lc, lc_i>>
                    \/ /\ ls' = Merged(r)
                       /\ mode' = "compl"
                       /\ lc' = cands
                       /\ lc_i' = 0
                       /\ UNCHANGED <<tty, ret, seq>>
    /\ nkeys' = nkeys + 1
    /\ GhostSpoil
    /\ EditFrame

\* the loop of CompleteLine reads byte c
CompleteLineRead ==
    /\ mode = "compl"
    /\ nkeys < budget.keys /\ StepsLeft
    /\ \E c \in budget.compl :
         /\ last' = OpBell("compl", c,
                           c = TAB /\ (lc_i + 1) % (Len(lc) + 1) = Len(lc))
         /\ IF c = TAB
            THEN LET k == (lc_i + 1) % (Len(lc) + 1)
                     r == CompleteLineShow(Start, lc, k)
                 IN \/ Crash(r) /\ UNCHANGED <<lc, lc_i>>
                    \/ /\ ls' = Merged(r)
                       /\ lc_i' = k
                       /\ UNCHANGED <<tty, ret, seq, mode, lc>>
            ELSE LET r == IF c = ESC
                          THEN (IF lc_i < Len(lc) THEN RefreshLine(Start)
                                ELSE Start)
                          ELSE CompleteLineCommit(Start, lc, lc_i)
                     rc == AsChar(CompleteLineReturns(c))
                 IN /\ IF rc < 0 THEN Return(r, r.len, tty)
                       ELSE IF rc = 0
                       THEN Land([l |-> r, next |-> "edit", count |-> 0])
                       ELSE \E wfail \in (IF InsertFastPath(r, l_HintsCallback)
                                          THEN BOOLEAN ELSE {FALSE}) :
                              Land(Dispatch(r, rc, l_HintsCallback, wfail))
                    /\ lc' = <<>>
                    /\ lc_i' = 0
    /\ nkeys' = nkeys + 1
    /\ GhostSpoil
    /\ EditFrame

\* the read of CompleteLine fails or returns 0: CompleteLine returns -1 and
\* LinenoiseEdit "return ls->len"
CompleteLineReadFails ==
    /\ mode = "compl"
    /\ Return(Start, ls.len, tty)
    /\ lc' = <<>>
    /\ lc_i' = 0
    /\ GhostSpoil
    /\ last' = Op("readfail", 0)
    /\ UNCHANGED nkeys
    /\ EditFrame

\* ------------------------------------------------------------- host calls
HostFrame == UNCHANGED <<mode, seq, lc, lc_i, ret, nkeys, ncalls, budget>>

\* LinenoiseHistoryAdd of a line of the host or of the line just returned
HistoryAdd ==
    /\ mode = "host"
    /\ nhost < budget.host /\ StepsLeft
    /\ \E line \in HostLines \cup (IF ret.kind = "line" THEN {ret.line} ELSE {}) :
       \E g \in (IF ls.history_len # 0 /\ ~InHistory(ls, ls.history_len - 1)
                 THEN BOOLEAN ELSE {FALSE}) :
         LET r == LinenoiseHistoryAdd(Start, line, g)
         IN /\ \/ /\ r.ub
                  /\ mode' = "crashed"
                  /\ UNCHANGED <<seq, lc, lc_i, ret, nkeys, ncalls, budget>>
               \/ HostFrame
            /\ ls' = Merged(r)
            /\ last' = OpLine("add", HistoryAddReturns(ls, line, g), line)
            /\ added' = AddedAfter(ls, line, HistoryAddReturns(ls, line, g))
    /\ nhost' = nhost + 1
    /\ typed' = Spoiled
    /\ ups' = -1
    /\ UNCHANGED <<tty, l_CompletionCallback, l_HintsCallback>>

\* LinenoiseHistorySetMaxLen
HistorySetMaxLen ==
    /\ mode = "host"
    /\ nhost < budget.host /\ StepsLeft
    /\ \E n \in budget.maxlens :
         LET r == LinenoiseHistorySetMaxLen(Start, n)
         IN /\ \/ /\ r.ub
                  /\ mode' = "crashed"
                  /\ UNCHANGED <<seq, lc, lc_i, ret, nkeys, ncalls, budget>>
               \/ HostFrame
            /\ ls' = Merged(r)
            /\ last' = OpLine("setmaxlen", HistorySetMaxLenReturns(ls, n), <<n>>)
    /\ nhost' = nhost + 1
    /\ typed' = Spoiled
    /\ ups' = -1
    /\ added' = SpoiledAdds
    /\ UNCHANGED <<tty, l_CompletionCallback, l_HintsCallback>>

\* LinenoiseHistoryLoad: the file cannot be opened (-1), or each of its lines
\* is added
HistoryLoad ==
    /\ mode = "host"
    /\ nhost < budget.host /\ StepsLeft
    /\ \/ /\ ls' = ls
          /\ last' = Op("load", -1)
          /\ UNCHANGED added
          /\ HostFrame
       \/ \E bytes \in budget.files :
          \E g \in (IF ls.history_len # 0 /\ ~InHistory(ls, ls.history_len - 1)
                    THEN BOOLEAN ELSE {FALSE}) :
            LET r == LinenoiseHistoryLoad(Start, FileLines(bytes), g)
            IN /\ \/ /\ r.ub
                     /\ mode' = "crashed"
                     /\ UNCHANGED <<seq, lc, lc_i, ret, nkeys, ncalls, budget>>
                  \/ HostFrame
               /\ ls' = Merged(r)
               /\ last' = Op("load", 0)
               /\ added' = IF bytes = <<>> THEN added ELSE SpoiledAdds
    /\ nhost' = nhost + 1
    /\ typed' = Spoiled
    /\ ups' = -1
    /\ UNCHANGED <<tty, l_CompletionCallback, l_HintsCallback>>

\* LinenoiseHistorySave: -1 when the file cannot be opened, else the file
\* holds the bytes written (kept in last.arg)
HistorySave ==
    /\ mode = "host"
    /\ nhost < budget.host /\ StepsLeft
    /\ \/ /\ last' = Op("save", -1)
          /\ ls' = ls
          /\ HostFrame
       \/ /\ last' = OpLine("save", 0, LinenoiseHistorySave(ls))
          /\ IF HistorySaveReadsOutside(ls)
             THEN /\ ls' = [ls EXCEPT !.ub = TRUE]
                  /\ \/ /\ mode' = "crashed"
                        /\ UNCHANGED <<seq, lc, lc_i, ret, nkeys, ncalls, budget>>
                     \/ HostFrame
             ELSE /\ ls' = ls
                  /\ HostFrame
    /\ nhost' = nhost + 1
    /\ typed' = Spoiled
    /\ ups' = -1
    /\ UNCHANGED <<tty, l_CompletionCallback, l_HintsCallback, added>>

\* LinenoiseClearBuffer, as the host loop calls it after each line
ClearBuffer ==
    /\ mode = "host"
    /\ nhost < budget.host /\ StepsLeft
    /\ LET r == LinenoiseClearBuffer(Start)
       IN /\ \/ /\ r.ub
                /\ mode' = "crashed"
                /\ UNCHANGED <<seq, lc, lc_i, ret, nkeys, ncalls, budget>>
             \/ HostFrame
          /\ ls' = Merged(r)
    /\ last' = Op("clear", 0)
    /\ nhost' = nhost + 1
    /\ GhostSpoil
    /\ UNCHANGED <<tty, l_CompletionCallback, l_HintsCallback>>

\* LinenoiseRestore: DisableRawMode, tcsetattr(orig_termios), FreeHistory
LinenoiseRestore ==
    /\ mode = "host"
    /\ nhost < budget.host /\ StepsLeft
    /\ \E ok \in (IF ls.rawmode THEN BOOLEAN ELSE {TRUE}) :
         ls' = FreeHistory(DisableRawMode(ls, ok))
    /\ tty' = ls.orig_termios
    /\ last' = Op("restore", 0)
    /\ nhost' = nhost + 1
    /\ typed' = Spoiled
    /\ ups' = -1
    /\ added' = SpoiledAdds
    /\ UNCHANGED <<l_CompletionCallback, l_HintsCallback>>
    /\ HostFrame

\* LinenoiseSetMultiLine
SetMultiLine ==
    /\ mode = "host"
    /\ ncalls = 0
    /\ nhost < budget.host /\ StepsLeft
    /\ nhost' = nhost + 1
    /\ \E ml \in BOOLEAN :
         /\ ml # ls.mlmode
         /\ ls' = [ls EXCEPT !.mlmode = ml]
    /\ last' = Op("setmultiline", 0)
    /\ UNCHANGED <<tty, l_CompletionCallback, l_HintsCallback, typed, added, ups>>
    /\ HostFrame

\* LinenoiseSetCompletionCallback
SetCompletionCallback ==
    /\ mode = "host"
    /\ ncalls = 0
    /\ nhost < budget.host /\ StepsLeft
    /\ nhost' = nhost + 1
    /\ l_CompletionCallback' = ~l_CompletionCallback
    /\ last' = Op("setcompletion", 0)
    /\ UNCHANGED <<ls, tty, l_HintsCallback, typed, added, ups>>
    /\ HostFrame

\* LinenoiseSetHintsCallback
SetHintsCallback ==
    /\ mode = "host"
    /\ ncalls = 0
    /\ nhost < budget.host /\ StepsLeft
    /\ nhost' = nhost + 1
    /\ l_HintsCallback' = ~l_HintsCallback
    /\ last' = Op("sethints", 0)
    /\ UNCHANGED <<ls, tty, l_CompletionCallback, typed, added, ups>>
    /\ HostFrame

Next ==
    \/ LinenoiseCall
    \/ LinenoiseEnableFails
    \/ LinenoiseNoTTY
    \/ LinenoiseUnsupportedTerm
    \/ ReadKey
    \/ ReadFails
    \/ ReadEscape
    \/ EscapeReadsNothing
    \/ EscapeReadFails
    \/ CompleteLineEnter
    \/ CompleteLineRead
    \/ CompleteLineReadFails
    \/ HistoryAdd
    \/ HistorySetMaxLen
    \/ HistoryLoad
    \/ HistorySave
    \/ ClearBuffer
    \/ LinenoiseRestore
    \/ SetMultiLine
    \/ SetCompletionCallback
    \/ SetHintsCallback

\* an editing run
Spec == Init /\ [][Next]_vars
\* a session run
SpecSession == InitSession /\ [][Next]_vars
\* a word run
SpecWords == InitWords /\ [][Next]_vars
\* a browse run
SpecBrowse == InitBrowse /\ [][Next]_vars
\* a refresh run
SpecRefresh == InitRefresh /\ [][Next]_vars
\* a run over the table of edit operations, narrow or wide terminal
InitOps == Created({NarrowCols, WideCols}) /\ budget = OpBudget
SpecOps == InitOps /\ [][Next]_vars
\* the same run on a terminal not wider than the prompt
InitTight == Created(TightCols) /\ budget = OpBudget
SpecTight == InitTight /\ [][Next]_vars

\* ------------------------------------------------------------------ claims
\* inside a Linenoise() call
InCall == mode \in {"edit", "esc1", "esc2", "csi", "compl"}
\* LinenoiseEdit has just returned to the host
EditReturned ==
    mode = "host" /\ last.op \in {"key", "esc", "esceof", "compl", "readfail"}
\* the step is a LinenoiseHistoryAdd call that returned
AddStep == last'.op = "add" /\ nhost' = nhost + 1 /\ mode' = "host"

\* C1: inside a Linenoise() call, after every dispatched keystroke,
\* 0 <= pos <= len, len is below the capacity of the buffer and buf[len] is
\* the terminating NUL.
C1_BufferInvariant ==
    InCall => /\ 0 <= ls.pos
              /\ ls.pos <= ls.len
              /\ ls.len < LINENOISE_MAX_LINE
              /\ At(ls.buf, ls.len) = 0

\* C2: once LinenoiseEdit has returned, by ENTER, CTRL-C, CTRL-D or a failed
\* read, the terminal has the attributes captured before raw mode was enabled.
C2_TermiosRestored == EditReturned => tty = ls.orig_termios

\* C3: at the start of a Linenoise() call and after LinenoiseClearBuffer the
\* edit buffer is empty: len = 0, pos = 0 and buf[0] = 0.
C3_BufferEmptyAtStart ==
    (\/ mode = "edit" /\ last.op = "call"
     \/ mode = "host" /\ last.op = "clear")
    => ls.len = 0 /\ ls.pos = 0 /\ At(ls.buf, 0) = 0

\* C4: on a fresh session, while only printable bytes and then ENTER are
\* read, the process is alive, the buffer holds exactly the bytes typed, and
\* ENTER returns exactly them, at every terminal width and in both modes.
C4_PrintableLineReturned ==
    typed # Spoiled =>
        /\ mode # "crashed"
        /\ mode = "edit" => ls.len = Len(typed) /\ strdup(ls.buf) = typed
        /\ (mode = "host" /\ last = Op("key", ENTER)) => ret = LineRet(typed)

\* C5: with the history holding the k distinct lines the host added and
\* nothing typed, pressing "previous entry" j times (1 <= j <= k) and then
\* ENTER returns the j-th most recent of these lines.
C5_PreviousEntryReturned ==
    (/\ mode = "host"
     /\ last = Op("key", ENTER)
     /\ added # SpoiledAdds
     /\ ups >= 1
     /\ ups <= Len(added))
    => ret = LineRet(added[Len(added) - ups + 1])

\* C6: a Linenoise() call in which the history was not browsed and that ends
\* with ENTER or with CTRL-D on an empty buffer leaves every line the host
\* added with LinenoiseHistoryAdd in the history.
C6_HostEntriesKept ==
    (/\ mode = "host"
     /\ last \in {Op("key", ENTER), Op("key", CTRL_D)}
     /\ added # SpoiledAdds
     /\ ups = 0)
    => \A i \in 1..Len(added) :
          \E j \in 1..Len(ls.history) : ls.history[j] = added[i]

\* C7: the history never holds more than history_max_len entries, and a
\* LinenoiseHistoryAdd that stores a line when the history is full drops the
\* entry at index 0, keeps the others in order and stores the line last.
C7_HistoryBounded ==
    /\ [](ls.history_len <= ls.history_max_len)
    /\ [][(AddStep /\ last'.key = 1 /\ ls.history_len = ls.history_max_len)
          => /\ ls'.history = Append(Tail(ls.history), last'.arg)
             /\ ls'.history_len = ls.history_len
             /\ ls'.history_max_len = ls.history_max_len]_vars

\* C7 witness: a full history whose entry from LinenoiseCreate has been
\* evicted by the LinenoiseHistoryAdd that just stored a line
C7_Witness ==
    /\ mode = "host"
    /\ last.op = "add"
    /\ last.key = 1
    /\ ls.history_max_len >= 2
    /\ ls.history_len = ls.history_max_len
    /\ Len(ls.history) = ls.history_len
    /\ ls.history[1] # <<>>
    /\ ls.history[ls.history_len] = last.arg

\* C8 as stated: after any LinenoiseHistoryAdd call the newest history entry
\* is not equal to the entry just before it.
C8_NewestDiffers ==
    (/\ mode = "host"
     /\ last.op = "add"
     /\ ls.history_len >= 2
     /\ Len(ls.history) = ls.history_len)
    => ls.history[ls.history_len] # ls.history[ls.history_len - 1]

\* C8 amended: LinenoiseHistoryAdd(s) changes nothing and returns 0 when s
\* equals the current last entry, and after a LinenoiseHistoryAdd that stored
\* its line (returned 1) the newest entry is not equal to the one before it.
C8_AddedDiffers ==
    [][AddStep =>
        /\ (/\ InHistory(ls, ls.history_len - 1)
            /\ ls.history[ls.history_len] = last'.arg)
           => /\ last'.key = 0
              /\ ls'.history = ls.history
              /\ ls'.history_len = ls.history_len
        /\ (/\ last'.key = 1
            /\ ls'.history_len >= 2
            /\ Len(ls'.history) = ls'.history_len)
           => ls'.history[ls'.history_len] # ls'.history[ls'.history_len - 1]
      ]_vars

\* C8 witness: the host has added the line a Linenoise() call returned, and
\* LinenoiseHistoryAdd has stored it behind an older entry
C8_Witness ==
    /\ mode = "host"
    /\ ncalls >= 1
    /\ ret.kind = "line"
    /\ last = OpLine("add", 1, ret.line)
    /\ ls.history_len >= 2
    /\ Len(ls.history) = ls.history_len
    /\ ls.history[ls.history_len] = last.arg

\* C9: when CTRL-D is read in the main loop, an empty buffer makes the call
\* return NULL, and a non-empty buffer loses the byte under the cursor (none
\* when the cursor is at the end) and editing continues.
C9_CtrlD ==
    [][(mode = "edit" /\ last' = Op("key", CTRL_D) /\ nkeys' = nkeys + 1)
       => IF ls.len = 0
          THEN mode' = "host" /\ ret' = NullRet
          ELSE /\ mode' = "edit"
               /\ ls'.pos = ls.pos
               /\ IF ls.pos >= 0 /\ ls.pos < ls.len
                  THEN /\ ls'.len = ls.len - 1
                       /\ \A i \in 0..(ls.len - 1) :
                            (i < LINENOISE_MAX_LINE - 1) =>
                            At(ls'.buf, i) = IF i < ls.pos THEN At(ls.buf, i)
                                             ELSE At(ls.buf, i + 1)
                  ELSE ls'.len = ls.len /\ ls'.buf = ls.buf
      ]_vars

\* C10: ESC in the loop of CompleteLine leaves buf, len and pos as they were
\* before TAB and CompleteLine returns 0: the main loop reads the next byte
\* as a fresh key.
C10_EscCancels ==
    [][(mode = "compl" /\ last' = Op("compl", ESC) /\ mode' # "crashed")
       => /\ ls'.buf = ls.buf
          /\ ls'.len = ls.len
          /\ ls'.pos = ls.pos
          /\ mode' = "edit"
      ]_vars

\* the struct after candidate k of cands has been copied into the edit
\* buffer of l as a whole, with pos = len = its length
Committed(l, cands, k) ==
    IF k < Len(cands)
    THEN [l EXCEPT !.buf = snprintf(l.buf, LINENOISE_MAX_LINE, cands[k + 1]),
                   !.len = Len(cands[k + 1]),
                   !.pos = Len(cands[k + 1])]
    ELSE l

\* C11: in the loop of CompleteLine with N candidates, TAB sets i to
\* (i + 1) mod (N + 1) and the bell rings exactly when i becomes N; any byte
\* other than TAB and ESC copies candidate i into the edit buffer with
\* pos = len = its length (nothing when i = N), and the main loop then
\* dispatches that byte.
C11_CompletionCycle ==
    [][(/\ mode = "compl"
        /\ last'.op = "compl"
        /\ nkeys' = nkeys + 1
        /\ mode' # "crashed"
        /\ last'.key # ESC)
       => IF last'.key = TAB
          THEN /\ mode' = "compl"
               /\ lc_i' = (lc_i + 1) % (Len(lc) + 1)
               /\ last'.bell = (lc_i' = Len(lc))
               /\ ls'.buf = ls.buf /\ ls'.len = ls.len /\ ls'.pos = ls.pos
          ELSE /\ ~last'.bell
               /\ lc_i < Len(lc) => Len(lc[lc_i + 1]) < LINENOISE_MAX_LINE
               /\ \E wfail \in BOOLEAN :
                    Land(Dispatch(Committed(Start, lc, lc_i), last'.key,
                                  l_HintsCallback, wfail))
      ]_vars

\* C12: when a read from the terminal fails or returns 0 bytes, in the main
\* loop or in the loop of CompleteLine, Linenoise returns NULL or the empty
\* line, never text that was typed.
C12_ReadFailureReturnsNothing ==
    (mode = "host" /\ last.op = "readfail")
    => (ret.kind = "null" \/ ret = LineRet(<<>>))

\* C13: CTRL-C, read in the main loop or handed over by CompleteLine, ends
\* Linenoise with NULL and errno EAGAIN whatever the buffer holds, and the
\* history entries and history_len are as they were when the key was read.
C13_CtrlCInterrupts ==
    [][(/\ mode \in {"edit", "compl"}
        /\ last'.op \in {"key", "compl"}
        /\ last'.key = CTRL_C
        /\ nkeys' = nkeys + 1
        /\ mode' # "crashed")
       => /\ mode' = "host"
          /\ ret' = NullRet
          /\ ls'.errno = "EAGAIN"
          /\ ls'.history = ls.history
          /\ ls'.history_len = ls.history_len
      ]_vars

\* CTRL-C has ended a call with text in the buffer and a host entry in the
\* history
C13_Witness ==
    /\ mode = "host"
    /\ last = Op("key", CTRL_C)
    /\ ret = NullRet
    /\ ls.errno = "EAGAIN"
    /\ strlen(ls.buf) > 0
    /\ ls.history_len >= 2
    /\ Len(ls.history) = ls.history_len

\* C14: CTRL-W on a buffer that holds a string of len bytes moves the cursor
\* left over the spaces before it and then over the non-spaces before those,
\* removes exactly the bytes between the new and the old cursor, keeps the
\* bytes before the new cursor and from the old cursor on in order, takes
\* the number of bytes removed off len and keeps buf[len] = 0.
C14_DeletePrevWord ==
    [][(/\ mode = "edit"
        /\ last' = Op("key", CTRL_W)
        /\ nkeys' = nkeys + 1
        /\ ls.len <= ls.buflen
        /\ At(ls.buf, ls.len) = 0)
       => /\ mode' = "edit"
          /\ ls'.pos <= ls.pos
          /\ \E m \in ls'.pos..ls.pos :
               /\ \A i \in m..(ls.pos - 1) : At(ls.buf, i) = SPACE
               /\ m = 0 \/ At(ls.buf, m - 1) # SPACE
               /\ \A i \in ls'.pos..(m - 1) : At(ls.buf, i) # SPACE
               /\ ls'.pos = 0 \/ At(ls.buf, ls'.pos - 1) = SPACE
          /\ ls'.len = ls.len - (ls.pos - ls'.pos)
          /\ \A i \in 0..(ls'.pos - 1) : At(ls'.buf, i) = At(ls.buf, i)
          /\ \A i \in 0..(ls.len - ls.pos - 1) :
               At(ls'.buf, ls'.pos + i) = At(ls.buf, ls.pos + i)
          /\ At(ls'.buf, ls'.len) = 0
      ]_vars

\* CTRL-W has taken the second word off "a a": the first word and the space
\* are left and the cursor is behind them
C14_Witness ==
    /\ mode = "edit"
    /\ last = Op("key", CTRL_W)
    /\ nkeys = 4
    /\ ls.len = 2
    /\ ls.pos = 2
    /\ SubSeq(ls.buf, 1, 3) = <<CH_a, SPACE, 0>>
    /\ ~ls.ub

\* the history a session created anew with capacity n holds after it has
\* loaded a file of these bytes
LoadedAnew(bytes, n) ==
    LinenoiseHistoryLoad(
        LinenoiseHistorySetMaxLen(LinenoiseCreate(WideCols), n),
        FileLines(bytes), FALSE)

\* C15: after LinenoiseHistorySave has written the history_len entries of a
\* session, LinenoiseHistoryLoad of that file into a session created anew,
\* with a capacity of at least history_len, gives that session the same
\* entries in the same order and the same history_len.
C15_SaveLoadRoundTrip ==
    (mode = "host" /\ last.op = "save" /\ last.key = 0 /\ ~ls.ub)
    => \A n \in 1..(LINENOISE_DEFAULT_HISTORY_MAX_LEN + 1) :
         n >= ls.history_len
         => /\ LoadedAnew(last.arg, n).history = ls.history
            /\ LoadedAnew(last.arg, n).history_len = ls.history_len

\* C16: LinenoiseHistorySetMaxLen(n) with n < 1 returns 0 and changes
\* nothing; with n >= 1 it returns 1, history_max_len is n, and the history
\* is its latest n entries in their order with history_len n when it held
\* more than n, and is unchanged otherwise.
C16_SetMaxLen ==
    [][(/\ mode = "host"
        /\ last'.op = "setmaxlen"
        /\ nhost' = nhost + 1
        /\ ~ls'.ub)
       => LET n == last'.arg[1]
          IN IF n < 1
             THEN last'.key = 0 /\ ls' = ls
             ELSE /\ last'.key = 1
                  /\ ls'.history_max_len = n
                  /\ IF ls.history_len > n
                     THEN /\ ls'.history_len = n
                          /\ Len(ls'.history) = n
                          /\ \A j \in 1..n :
                               ls'.history[j] =
                                   ls.history[ls.history_len - n + j]
                     ELSE /\ ls'.history_len = ls.history_len
                          /\ ls'.history = ls.history
      ]_vars

\* the capacity was set to 1 while the history held "" and "a": "a" is left
C16_Witness ==
    /\ mode = "host"
    /\ last = OpLine("setmaxlen", 1, <<1>>)
    /\ added = SpoiledAdds
    /\ ls.history_max_len = 1
    /\ ls.history_len = 1
    /\ ls.history = <<<<CH_a>>>>
    /\ ~ls.ub

\* C17: LinenoiseRestore can be called in any state of the host: after it
\* the rawmode flag is off, the terminal has the attributes it had before
\* the session touched it and the history is empty; a second call changes
\* neither the struct nor the terminal.
C17_RestoreIdempotent ==
    [][(mode = "host" /\ last'.op = "restore" /\ nhost' = nhost + 1)
       => /\ ~ls'.rawmode
          /\ tty' = CookedTermios
          /\ ls'.history_len = 0
          /\ ls'.history = <<>>
          /\ last.op = "restore" => (ls' = ls /\ tty' = tty)
      ]_vars

\* the bytes the switch of LinenoiseEdit has a case for
BoundKeys ==
    {ENTER, CTRL_C, BACKSPACE, CTRL_H, CTRL_D, CTRL_T, CTRL_B, CTRL_F,
     CTRL_P, CTRL_N, ESC, CTRL_U, CTRL_K, CTRL_A, CTRL_E, CTRL_L, CTRL_W}

\* C18: a byte below 0x20 that no case of the switch binds (TAB when no
\* completion callback is registered among them) is not inserted: buf, len
\* and pos are as they were before it was read.
C18_UnboundControlIgnored ==
    [][(/\ mode = "edit"
        /\ last'.op = "key"
        /\ nkeys' = nkeys + 1
        /\ last'.key < SPACE
        /\ last'.key \notin BoundKeys
        /\ ~(last'.key = TAB /\ l_CompletionCallback))
       => /\ ls'.buf = ls.buf
          /\ ls'.len = ls.len
          /\ ls'.pos = ls.pos
      ]_vars

\* the terminal has the raw attributes EnableRawMode derives from the
\* snapshot in orig_termios
RawApplied == tty = MakeRaw(ls.orig_termios) /\ tty # ls.orig_termios

\* C19: inside a Linenoise() call, that is after EnableRawMode returned 0,
\* the rawmode flag is true; and in every state the flag is true exactly
\* when the raw attributes are applied to the terminal.
C19_RawModeFlag ==
    /\ InCall => ls.rawmode
    /\ mode # "crashed" => (ls.rawmode <=> RawApplied)

\* C20: history_len is never negative: ENTER and CTRL-D on an empty line
\* take an entry off the history only when it holds one, also after an
\* earlier ENTER emptied it or LinenoiseRestore freed it.
C20_HistoryLenNonNegative == ls.history_len >= 0

\* C21: when CTRL-P or CTRL-N makes LinenoiseEditHistoryNext access
\* history[history_len - 1 - history_index], 0 <= history_index <=
\* history_len - 1 holds, also at the first such key of a later call.
C21_HistoryIndexInRange ==
    [][(/\ mode = "edit"
        /\ last'.op = "key"
        /\ last'.key \in {CTRL_P, CTRL_N}
        /\ nkeys' = nkeys + 1
        /\ ls.history_len > 1)
       => /\ 0 <= ls.history_index
          /\ ls.history_index <= ls.history_len - 1
      ]_vars

\* C22: whenever LinenoiseEdit waits for a key, the edit buffer holds no
\* NUL before index len, that is strlen(buf) = len; and the line returned on
\* ENTER has len bytes.
C22_NoNulBeforeLen ==
    /\ mode = "edit" => strlen(ls.buf) = ls.len
    /\ (mode = "host" /\ last = Op("key", ENTER) /\ ret.kind = "line")
       => Len(ret.line) = ls.len

\* C23: CTRL-P or CTRL-N with history_len > 1 and history_index inside the
\* history stores the edit buffer in history[history_len - 1 -
\* history_index], moves history_index one step, and makes the entry now
\* indexed the edit buffer with pos = len = its length; a step that would
\* leave [0, history_len - 1] leaves history_index, buf, len and pos as they
\* were.
C23_HistoryNext ==
    [][(/\ mode = "edit"
        /\ last'.op = "key"
        /\ last'.key \in {CTRL_P, CTRL_N}
        /\ nkeys' = nkeys + 1
        /\ mode' # "crashed"
        /\ ls.history_len > 1
        /\ 0 <= ls.history_index
        /\ ls.history_index <= ls.history_len - 1)
       => LET slot == ls.history_len - 1 - ls.history_index
              idx == ls.history_index
                     + (IF last'.key = CTRL_P THEN 1 ELSE -1)
          IN /\ ls'.history_len = ls.history_len
             /\ ls'.history[slot + 1] = strdup(ls.buf)
             /\ IF idx < 0 \/ idx > ls.history_len - 1
                THEN /\ ls'.history_index = ls.history_index
                     /\ ls'.buf = ls.buf
                     /\ ls'.len = ls.len
                     /\ ls'.pos = ls.pos
                ELSE LET e == ls'.history[ls.history_len - 1 - idx + 1]
                     IN /\ ls'.history_index = idx
                        /\ strdup(ls'.buf) = e
                        /\ ls'.len = Len(e)
                        /\ ls'.pos = Len(e)
      ]_vars

\* C24: in a call that starts with history_index = 0 and lines of the host
\* in the history, CTRL-P followed at once by CTRL-N leaves the edit buffer
\* as it was before CTRL-P (the empty line of the call's start) and every
\* line the host added still in the history.
C24_UpDownRestores ==
    [][(/\ mode = "edit"
        /\ last = Op("key", CTRL_P)
        /\ ups = 1
        /\ ls.history_index = 1
        /\ added # SpoiledAdds
        /\ added # <<>>
        /\ last' = Op("key", CTRL_N)
        /\ nkeys' = nkeys + 1
        /\ mode' # "crashed")
       => /\ strdup(ls'.buf) = <<>>
          /\ ls'.history_index = 0
          /\ \A i \in 1..Len(added) :
               \E j \in 1..Len(ls'.history) : ls'.history[j] = added[i]
      ]_vars

\* C25: LinenoiseRestore on a session on which raw mode was never enabled
\* (orig_termios is still the zero bytes of LinenoiseCreate and the terminal
\* has the attributes it started with) leaves the terminal attributes as
\* they are.
C25_RestoreWritesCaptured ==
    [][(/\ mode = "host"
        /\ last'.op = "restore"
        /\ nhost' = nhost + 1
        /\ ls.orig_termios = ZeroTermios
        /\ tty = CookedTermios)
       => tty' = tty
      ]_vars

\* C26: a single-line refresh of a line that lies within the array (pos <=
\* len <= buflen) on a terminal wider than the prompt puts the
\* cursor in a column below cols, writes the prompt and buffer bytes that
\* together take at most cols columns, and the bytes written are the bytes
\* of the line from an offset at or before the cursor on.
C26_SingleLineWindow ==
    (/\ InCall
     /\ ~ls.mlmode
     /\ ls.plen < ls.cols
     /\ ls.pos <= ls.len
     /\ ls.len <= ls.buflen)
    => /\ SingleLineCursor(ls) < ls.cols
       /\ ls.plen + Len(SingleLineBytes(ls)) <= ls.cols
       /\ 0 <= SingleLineWindow(ls).off
       /\ SingleLineWindow(ls).off <= ls.pos
       /\ 0 <= SingleLineWindow(ls).len
       /\ SingleLineWindow(ls).off + SingleLineWindow(ls).len <= ls.len
       /\ Len(SingleLineBytes(ls)) = SingleLineWindow(ls).len

\* the line "aaa" with the cursor at its start on the narrow terminal: the
\* refresh writes "aa" and leaves the cursor behind the prompt
C26_Witness ==
    /\ mode = "edit"
    /\ last = Op("key", CTRL_A)
    /\ ~ls.mlmode
    /\ ls.cols = NarrowCols
    /\ ls.len = NarrowCols - PromptLen + 1
    /\ ls.pos = 0
    /\ Len(SingleLineBytes(ls)) = NarrowCols - PromptLen
    /\ ~ls.ub

\* the fields an edit operation works on differ between l and r
Mutated(l, r) ==
    \/ l.buf # r.buf \/ l.len # r.len \/ l.pos # r.pos
    \/ l.history # r.history \/ l.history_index # r.history_index

\* the main loop reads key c of the table of edit operations with a
\* well-formed buffer, and the operation executes no undefined behaviour
OpStep(c) ==
    /\ mode = "edit" /\ nkeys' = nkeys + 1
    /\ last'.op = "key" /\ last'.key = c
    /\ ~(c = CTRL_D /\ ls.len = 0)
    /\ ls.pos <= ls.len /\ ls.len <= ls.buflen
    /\ ~EditKey(Start, c, l_HintsCallback).ub
    /\ mode' = "edit" => ls' = Merged(EditKey(Start, c, l_HintsCallback))

\* C27 as stated: every edit operation calls RefreshLine exactly once when
\* it changes the buffer, the cursor or the history, and not at all when it
\* changes nothing.
C27_RefreshIffMutated ==
    [][\A c \in OpKeys :
         OpStep(c) =>
           LET r == EditKey(Start, c, l_HintsCallback)
           IN r.nrefresh = IF Mutated(Start, r) THEN 1 ELSE 0]_vars

\* C27: the cursor moves, delete and backspace call RefreshLine once when
\* they change the state and not at all otherwise; transpose once exactly
\* when the cursor is inside the line; history_next once exactly when
\* history_index moves; kill_line, kill_to_end and kill_prev_word once on
\* every call, also when nothing changes; insert once when it stores the
\* byte, except in single-line mode with the cursor at the end, the line
\* still shorter than the terminal and no hints callback, where it stores
\* the byte without calling RefreshLine, and not at all when the buffer is
\* full.
C27_RefreshPerOperation ==
    [][\A c \in OpKeys :
         OpStep(c) =>
           LET r == EditKey(Start, c, l_HintsCallback)
               once(b) == r.nrefresh = IF b THEN 1 ELSE 0
           IN CASE c \in {CTRL_U, CTRL_K, CTRL_W} -> once(TRUE)
                [] c = CH_a ->
                     /\ ls.len = ls.buflen => ~Mutated(Start, r)
                     /\ once(/\ ls.len < ls.buflen
                             /\ ~(/\ ~ls.mlmode /\ ls.pos = ls.len
                                  /\ ls.plen + ls.len + 1 < ls.cols
                                  /\ ~l_HintsCallback))
                [] c \in {CTRL_P, CTRL_N} ->
                     once(r.history_index # ls.history_index)
                [] c = CTRL_T -> once(ls.pos > 0 /\ ls.pos < ls.len)
                [] OTHER -> once(Mutated(Start, r))]_vars

\* kill_line was the first key of the first call: it ran on an empty line
C27_Witness ==
    /\ mode = "edit" /\ last = Op("key", CTRL_U)
    /\ ncalls = 1 /\ nkeys = 1
    /\ ~ls.mlmode /\ ~l_HintsCallback
    /\ ls.len = 0 /\ ls.pos = 0 /\ ~ls.ub

\* C28 as stated: in single-line mode a hint is rendered only when
\* plen + len < cols; in multi-line mode it is rendered on every refresh for
\* which the hints callback returns a string, whatever plen + len is; a
\* rendered hint never makes prompt + buffer + hint exceed cols.
C28_HintMultiLineUnconditional ==
    (mode = "edit" /\ ls.pos <= ls.len /\ ls.len <= ls.buflen) =>
        LET h == RefreshShowHints(ls, l_HintsCallback)
        IN /\ (~ls.mlmode /\ h # <<>>) => ls.plen + ls.len < ls.cols
           /\ (ls.mlmode /\ l_HintsCallback /\ hints(ls.buf) # <<>>) => h # <<>>
           /\ h # <<>> => ls.plen + ls.len + Len(h) <= ls.cols

\* C28: in single-line and in multi-line mode alike a hint is rendered
\* exactly when a hints callback is registered, it returns a string and
\* plen + len < cols; the rendered bytes are the first
\* min(strlen(hint), cols - (plen + len)) bytes of the hint, so that
\* prompt + buffer + hint never exceeds cols.
C28_HintRendered ==
    (mode = "edit" /\ ls.pos <= ls.len /\ ls.len <= ls.buflen) =>
        LET h == RefreshShowHints(ls, l_HintsCallback)
            full == hints(ls.buf)
        IN /\ h # <<>> <=> /\ l_HintsCallback
                           /\ full # <<>>
                           /\ ls.plen + ls.len < ls.cols
           /\ h # <<>> =>
                /\ Len(h) = Min(Len(full), ls.cols - (ls.plen + ls.len))
                /\ h = SubSeq(full, 1, Len(h))
                /\ ls.plen + ls.len + Len(h) <= ls.cols
           /\ (~ls.mlmode /\ ls.plen < ls.cols) =>
                ls.plen + Len(SingleLineBytes(ls)) + Len(h) <= ls.cols

\* the insert that completed the line with a hint refreshed a multi-line
\* terminal on which the hint does not fit: it is cut
C28_Witness ==
    /\ mode = "edit" /\ last = Op("key", CH_a)
    /\ l_HintsCallback /\ ls.mlmode /\ ~ls.ub
    /\ strdup(ls.buf) = HintFor /\ ls.pos = ls.len
    /\ Len(RefreshShowHints(ls, l_HintsCallback)) = ls.cols - (ls.plen + ls.len)
    /\ Len(RefreshShowHints(ls, l_HintsCallback)) < Len(HintText)

\* a byte of the main loop is read in multi-line mode with a well-formed
\* buffer and its operation calls RefreshLine once
MultiLineRefreshStep ==
    /\ mode = "edit" /\ mode' = "edit" /\ nkeys' = nkeys + 1
    /\ last'.op = "key" /\ last'.key \in OpKeys
    /\ ls.mlmode /\ ls.pos <= ls.len /\ ls.len <= ls.buflen
    /\ EditKey(Start, last'.key, l_HintsCallback).nrefresh = 1
    /\ ~EditKey(Start, last'.key, l_HintsCallback).ub

\* the struct that refresh received: the line after the operation with the
\* render memo of before
Refreshed == [ls' EXCEPT !.maxrows = ls.maxrows, !.oldpos = ls.oldpos]

\* C29 as stated: rows is ceil((plen + len) / cols), rpos is the 0-based
\* (plen + oldpos) / cols, and the erase phase moves down by
\* old_maxrows - rpos exactly when that is positive.
C29_RposZeroBased ==
    [][MultiLineRefreshStep =>
         LET l == Refreshed
             rpos == (l.plen + l.oldpos) \div l.cols
         IN /\ MultiLineRows(l) * l.cols >= l.plen + l.len
            /\ (MultiLineRows(l) - 1) * l.cols < l.plen + l.len
            /\ MultiLineRpos(l) = rpos
            /\ MultiLineDown(l) = Max(0, l.maxrows - rpos)]_vars

\* C29: rows is ceil((plen + len) / cols); rpos is the 1-based row
\* (plen + oldpos) / cols + 1 of the previous cursor; the erase phase moves
\* down by old_maxrows - rpos exactly when that is positive; the refresh
\* leaves oldpos = pos and maxrows at least rows.
C29_RposOneBased ==
    [][MultiLineRefreshStep =>
         LET l == Refreshed
             rpos == (l.plen + l.oldpos) \div l.cols + 1
         IN /\ MultiLineRows(l) * l.cols >= l.plen + l.len
            /\ (MultiLineRows(l) - 1) * l.cols < l.plen + l.len
            /\ MultiLineRpos(l) = rpos
            /\ MultiLineDown(l) = Max(0, l.maxrows - rpos)
            /\ ls'.oldpos = ls'.pos
            /\ ls'.maxrows >= MultiLineRows(l)
            /\ ls'.maxrows >= ls.maxrows]_vars

\* two rows were rendered, the cursor went home, and an insert refreshed
\* from the first row: the erase phase moved down one row
C29_Witness ==
    /\ mode = "edit" /\ last = Op("key", CH_a) /\ nkeys = 4
    /\ ls.mlmode /\ ls.cols = NarrowCols /\ ~ls.ub
    /\ ls.len = 3 /\ ls.pos = 1 /\ ls.oldpos = 1 /\ ls.maxrows = 2

\* C30: when a Linenoise() call starts editing, the render memo is fresh:
\* maxrows = 0 and oldpos = 0.
C30_RenderMemoFresh ==
    [][(mode = "host" /\ mode' = "edit" /\ last'.op = "call") =>
         (ls'.maxrows = 0 /\ ls'.oldpos = 0)]_vars

\* the sequences the decoder acts on: ESC [ A/B/C/D/H/F, ESC [ 3 ~, ESC O H/F
RecognisedSeq(s0, s1, s2) ==
    \/ s0 = CH_LBRACKET /\ s1 \in {CH_A, CH_B, CH_C, CH_D, CH_H, CH_F}
    \/ s0 = CH_LBRACKET /\ s1 = CH_3 /\ s2 = CH_TILDE
    \/ s0 = CH_O /\ s1 \in {CH_H, CH_F}

\* C31: when the last read of an escape sequence is done and the bytes the
\* terminal delivered (all of them, or fewer when the input ended) are not a
\* recognised sequence, then buf, len, pos, the history and history_index
\* are unchanged and the main loop reads the next byte (on a well-formed
\* buffer, nothing undefined executed before).
C31_UnknownSequenceIgnored ==
    [][(/\ mode \in {"esc2", "csi"} /\ (mode = "csi" \/ mode' # "csi")
        /\ last'.op \in {"esc", "esceof"} /\ nkeys' = nkeys + 1
        /\ ls.pos <= ls.len /\ ls.len <= ls.buflen /\ ~ls.ub
        /\ \/ last'.op = "esceof"
           \/ ~RecognisedSeq(seq[1],
                             IF mode = "csi" THEN seq[2] ELSE last'.key,
                             IF mode = "csi" THEN last'.key ELSE 0))
       => /\ mode' = "edit"
          /\ ls'.buf = ls.buf /\ ls'.len = ls.len /\ ls'.pos = ls.pos
          /\ ls'.history = ls.history
          /\ ls'.history_index = ls.history_index]_vars

\* C32: a byte 0x01..0xFF other than TAB that the loop of CompleteLine read
\* successfully reaches the main loop as that byte, not as a negative value,
\* and is dispatched there: the call returns on this step only when the
\* dispatch of that byte returns.
C32_CompletionHandsBack ==
    [][(/\ mode = "compl" /\ last'.op = "compl" /\ nkeys' = nkeys + 1
        /\ last'.key # TAB /\ last'.key >= 1 /\ last'.key <= 255
        /\ ls.pos <= ls.len /\ ls.len <= ls.buflen /\ ~ls.ub
        /\ mode' # "crashed")
       => LET c == last'.key
              r == IF c = ESC
                   THEN (IF lc_i < Len(lc) THEN RefreshLine(Start) ELSE Start)
                   ELSE CompleteLineCommit(Start, lc, lc_i)
          IN /\ AsChar(CompleteLineReturns(c)) = c
             /\ mode' = "host" =>
                  Dispatch(r, c, l_HintsCallback, TRUE).next = "return"]_vars

\* C33: when an edit operation refreshes a single-line terminal with
\* plen >= cols, the first loop takes the size_t pos past zero: pos ends at
\* 2^w - (plen - cols + 1) and the cursor column pos + plen at cols - 1.
\* len ends past zero as well exactly when the cursor is less than
\* plen - cols + 1 bytes before the end of the line or plen > cols; that is
\* so on every line built without undefined behaviour (len = strlen(buf)),
\* and the size given to abAppend is then a wrapped value.
C33_WindowWraps ==
    [][(/\ mode = "edit" /\ last'.op = "key" /\ nkeys' = nkeys + 1
        /\ last'.key \in OpKeys /\ ~(last'.key = CTRL_D /\ ls.len = 0)
        /\ ls.pos <= ls.len /\ ls.len <= ls.buflen
        /\ EditKey(Start, last'.key, l_HintsCallback).nrefresh >= 1
        /\ ~ls'.mlmode /\ ls'.plen >= ls'.cols
        /\ ls'.pos <= ls'.len /\ ls'.len <= ls'.buflen)
       => LET W == SingleLineWindow(ls')
              k == ls'.plen - ls'.cols + 1
          IN /\ W.pos = SizeMod - k
             /\ SingleLineCursor(ls') = ls'.cols - 1
             /\ W.len >= SizeMod \div 2
                  <=> (ls'.pos + k > ls'.len \/ ls'.plen > ls'.cols)
             /\ (~ls.ub /\ strlen(ls'.buf) = ls'.len)
                  => (W.len >= SizeMod \div 2 /\ ls'.ub)]_vars

\* the first byte typed on a terminal as wide as the prompt was stored and
\* refreshed: the window was computed from wrapped values
C33_Witness ==
    /\ mode \in {"edit", "crashed"} /\ last = Op("key", CH_a)
    /\ ncalls = 1 /\ nkeys = 1 /\ nhost = 0
    /\ ~ls.mlmode /\ ls.cols = ls.plen /\ ls.len = 1 /\ ls.pos = 1
    /\ SingleLineWindow(ls).pos = SizeMod - 1
    /\ SingleLineWindow(ls).len = SizeMod - 1
    /\ ls.ub

\* ENTER is read in the main loop with a hints callback registered, on a
\* well-formed buffer with nothing undefined executed before
EnterWithHints ==
    /\ mode = "edit" /\ last' = Op("key", ENTER) /\ nkeys' = nkeys + 1
    /\ l_HintsCallback
    /\ ls.pos <= ls.len /\ ls.len <= ls.buflen /\ ~ls.ub

\* C34 as stated: ENTER with a hints callback registered performs exactly
\* one refresh, no hint is rendered in it, and the callback registered after
\* the return is the one registered before.
C34_EnterOneRefresh ==
    [][EnterWithHints =>
         /\ EnterKey(Start, l_HintsCallback).nrefresh = 1
         /\ EnterRefreshes(Start, l_HintsCallback) = << <<>> >>
         /\ l_HintsCallback' = l_HintsCallback]_vars

\* C34: ENTER with a hints callback registered ends with one refresh made
\* with the callback disabled, in which no hint is rendered; in multi-line
\* mode with the cursor not at the end of the line that refresh is preceded
\* by the refresh of the move to the end, made with the callback in place;
\* there is no other refresh, the call returns, and the callback registered
\* afterwards is the one registered before.
C34_EnterFinalRefresh ==
    [][EnterWithHints =>
         LET hs == EnterRefreshes(Start, l_HintsCallback)
             moved == ls.mlmode /\ ls.pos # ls.len
         IN /\ EnterKey(Start, l_HintsCallback).nrefresh = Len(hs)
            /\ Len(hs) = IF moved THEN 2 ELSE 1
            /\ hs[Len(hs)] = <<>>
            /\ moved => hs[1] = RefreshShowHints([ls EXCEPT !.pos = ls.len], TRUE)
            /\ mode' \in {"host", "crashed"}
            /\ mode' = "host" => ret' = LineRet(strdup(ls.buf))
            /\ l_HintsCallback' = l_HintsCallback]_vars

\* ENTER returned the line that has a hint, on a terminal with room for it
C34_Witness ==
    /\ mode = "host" /\ last = Op("key", ENTER) /\ l_HintsCallback
    /\ ret = LineRet(HintFor) /\ strdup(ls.buf) = HintFor
    /\ ls.plen + ls.len < ls.cols /\ ~ls.ub
    /\ RefreshShowHints(ls, TRUE) # <<>>

====
